---- MODULE Spec2Model ----
(***************************************************************************)
(* A model of the Colin Telegram bot (roljand/colin_bot): the response     *)
(* resolution pipeline of src/app.py (Flask webhook variant) and of        *)
(* src/main.py (polling variant with the Phi-3 prompt, cleaner and         *)
(* validator).  Texts are TLA+ strings and the Python string operations    *)
(* the code uses (lower, strip, split, replace, in, re.sub) are computed   *)
(* character by character.                                                 *)
(***************************************************************************)
EXTENDS Integers, Sequences, FiniteSets, TLC

(***************************************************************************)
(* Python str operations, as the code uses them.                           *)
(***************************************************************************)

\* s[i] as a one-character string (1-based).
CharAt(s, i) == SubSeq(s, i, i)

\* s[i:] with a 1-based start.
DropTo(s, i) == SubSeq(s, i, Len(s))

\* s.startswith(p, i-1)
StartsAt(s, i, p) ==
    /\ i + Len(p) - 1 <= Len(s)
    /\ SubSeq(s, i, i + Len(p) - 1) = p

\* s.startswith(p)
startswith(s, p) == StartsAt(s, 1, p)

\* s.endswith(p)
endswith(s, p) ==
    /\ Len(p) <= Len(s)
    /\ SubSeq(s, Len(s) - Len(p) + 1, Len(s)) = p

\* min(S) for a non-empty set of integers, 0 for the empty set
MinOr0(S) == IF S = {} THEN 0 ELSE CHOOSE j \in S : \A k \in S : j <= k

\* s.find(p, i-1) + 1: the first place from i on where p occurs, 0 if none
FindFrom(s, p, i) ==
    MinOr0({ j \in i..(Len(s) - Len(p) + 1) : SubSeq(s, j, j + Len(p) - 1) = p })

\* s.find(p) + 1
Find(s, p) == FindFrom(s, p, 1)

\* p in s
Contains(s, p) == FindFrom(s, p, 1) # 0

\* any(k in s for k in keys), keys a sequence of strings
ContainsAny(s, keys) == \E k \in 1..Len(keys) : Contains(s, keys[k])

UpperCase == "ABCDEFGHIJKLMNOPQRSTUVWXYZ"
LowerCase == "abcdefghijklmnopqrstuvwxyz"

\* The lower-case letter of each upper-case letter.
LowerOf ==
    [c \in { CharAt(UpperCase, i) : i \in 1..Len(UpperCase) } |->
        CharAt(LowerCase, Find(UpperCase, c))]

LowerChar(c) == IF c \in DOMAIN LowerOf THEN LowerOf[c] ELSE c

RECURSIVE LowerRange(_, _, _)
\* s[lo-1:hi].lower(), by halves
LowerRange(s, lo, hi) ==
    IF lo > hi THEN ""
    ELSE IF lo = hi THEN LowerChar(CharAt(s, lo))
    ELSE LET mid == (lo + hi) \div 2
         IN LowerRange(s, lo, mid) \o LowerRange(s, mid + 1, hi)

\* s.lower()
lower(s) == LowerRange(s, 1, Len(s))

Whitespace == {" ", "\n", "\t", "\r"}

\* c.isspace() for the one-character string c
IsSpace(c) == c \in Whitespace

\* The first place from i on whose character is not in chars; Len(s) + 1 if none.
FirstNotIn(s, chars, i) ==
    LET S == { j \in i..Len(s) : CharAt(s, j) \notin chars }
    IN IF S = {} THEN Len(s) + 1 ELSE MinOr0(S)

\* The first place from i on whose character is in chars; Len(s) + 1 if none.
FirstIn(s, chars, i) ==
    LET S == { j \in i..Len(s) : CharAt(s, j) \in chars }
    IN IF S = {} THEN Len(s) + 1 ELSE MinOr0(S)

\* The last place up to i whose character is not in chars; 0 if none.
LastNotIn(s, chars, i) ==
    LET S == { j \in 1..i : CharAt(s, j) \notin chars }
    IN IF S = {} THEN 0 ELSE CHOOSE j \in S : \A k \in S : k <= j

\* s.lstrip(chars), chars a set of one-character strings
lstripSet(s, chars) == DropTo(s, FirstNotIn(s, chars, 1))

\* s.rstrip(chars)
rstripSet(s, chars) == SubSeq(s, 1, LastNotIn(s, chars, Len(s)))

\* s.strip()
strip(s) == rstripSet(lstripSet(s, Whitespace), Whitespace)

RECURSIVE ReplaceFrom(_, _, _, _)
\* s[i-1:].replace(old, new)
ReplaceFrom(s, old, new, i) ==
    LET j == FindFrom(s, old, i) IN
    IF j = 0 THEN DropTo(s, i)
    ELSE SubSeq(s, i, j - 1) \o new \o ReplaceFrom(s, old, new, j + Len(old))

\* s.replace(old, new) for a non-empty old: left to right, non-overlapping
replace(s, old, new) == ReplaceFrom(s, old, new, 1)

RECURSIVE SplitWs(_, _)
\* s[i-1:].split(): the maximal runs of non-whitespace characters, in order
SplitWs(s, i) ==
    LET b == FirstNotIn(s, Whitespace, i) IN
    IF b > Len(s) THEN << >>
    ELSE LET e == FirstIn(s, Whitespace, b)
         IN << SubSeq(s, b, e - 1) >> \o SplitWs(s, e)

\* s.split()
split(s) == SplitWs(s, 1)

RECURSIVE SplitFrom(_, _, _)
SplitFrom(s, sep, i) ==
    LET j == FindFrom(s, sep, i) IN
    IF j = 0 THEN << DropTo(s, i) >>
    ELSE << SubSeq(s, i, j - 1) >> \o SplitFrom(s, sep, j + Len(sep))

\* s.split(sep) for a non-empty sep
SplitOn(s, sep) == SplitFrom(s, sep, 1)

RECURSIVE join(_, _)
\* sep.join(words)
join(sep, words) ==
    IF Len(words) = 0 THEN ""
    ELSE IF Len(words) = 1 THEN words[1]
    ELSE words[1] \o sep \o join(sep, Tail(words))

\* set(words)
SeqToSet(q) == { q[i] : i \in 1..Len(q) }

(***************************************************************************)
(* Python values: what response.json() yields and what the functions       *)
(* return.  None is JSON null.                                             *)
(***************************************************************************)

None == [t |-> "null", s |-> "", items |-> << >>]
PyStr(x) == [t |-> "str", s |-> x, items |-> << >>]
\* a number, by its numeral
PyNum(x) == [t |-> "num", s |-> x, items |-> << >>]
PyList(xs) == [t |-> "list", s |-> "", items |-> xs]
\* a dict, as the sequence of its (key, value) entries
PyDict(entries) == [t |-> "dict", s |-> "", items |-> entries]
Entry(key, value) == [k |-> key, v |-> value]

\* The outcome of evaluating an expression or a call: a value, or an
\* exception (named by its class) that propagates.
Return(v) == [exc |-> "none", val |-> v]
Raise(e) == [exc |-> e, val |-> None]

HasKey(d, key) == \E i \in 1..Len(d.items) : d.items[i].k = key
GetKey(d, key) == d.items[CHOOSE i \in 1..Len(d.items) : d.items[i].k = key].v

\* bool(v)
Truthy(v) ==
    CASE v.t = "null" -> FALSE
      [] v.t = "str" -> v.s # ""
      [] v.t = "num" -> v.s # "0"
      [] OTHER -> Len(v.items) > 0

\* `key in v` raises TypeError unless v is a container or a string
InRaises(v) == v.t \notin {"dict", "list", "str"}
In(key, v) ==
    CASE v.t = "dict" -> HasKey(v, key)
      [] v.t = "list" -> \E i \in 1..Len(v.items) :
                            v.items[i].t = "str" /\ v.items[i].s = key
      [] v.t = "str" -> Contains(v.s, key)
      [] OTHER -> FALSE

\* v[key] for a string key: KeyError on a dict without it, TypeError otherwise
Subscript(v, key) ==
    IF v.t = "dict"
    THEN (IF HasKey(v, key) THEN Return(GetKey(v, key)) ELSE Raise("KeyError"))
    ELSE Raise("TypeError")

\* len(v)
LenRaises(v) == v.t \notin {"dict", "list", "str"}
PyLen(v) == IF v.t = "str" THEN Len(v.s) ELSE Len(v.items)

\* v[0]
First(v) ==
    CASE v.t = "list" ->
            IF Len(v.items) > 0 THEN Return(v.items[1]) ELSE Raise("IndexError")
      [] v.t = "str" ->
            IF v.s # "" THEN Return(PyStr(CharAt(v.s, 1))) ELSE Raise("IndexError")
      [] v.t = "dict" -> Raise("KeyError")
      [] OTHER -> Raise("TypeError")

(***************************************************************************)
(* The generation backend, as one HTTP exchange can turn out.              *)
(***************************************************************************)

\* kind: "timeout", "connect" (connection error), "error" (any other
\* client exception) or "response"; for a response, its status, whether
\* its body parses as JSON, and the parsed body.
Http(kind, status, parses, body) ==
    [kind |-> kind, status |-> status, parses |-> parses, body |-> body]

HttpTimeout == Http("timeout", 0, FALSE, None)
HttpConnect == Http("connect", 0, FALSE, None)
HttpError == Http("error", 0, FALSE, None)
HttpStatus(code) == Http("response", code, FALSE, None)
HttpUnparseable == Http("response", 200, FALSE, None)
HttpJson(body) == Http("response", 200, TRUE, body)

(***************************************************************************)
(* src/main.py: validator, cleaner and fallback responder.                 *)
(* In every reply text below, "*" stands for the emoji of the source       *)
(* string.                                                                 *)
(***************************************************************************)

MAX_HISTORY == 3

ai_references ==
    << "i am an ai", "i'm an ai", "as an ai", "as a language model",
       "i cannot", "i don't have the ability", "i'm not able to",
       "my training", "i was created to", "i don't experience",
       "my time as ai", "as ai", "before my time", "i'm an artificial" >>

tech_terms ==
    << "neural network", "algorithm", "machine learning",
       "natural language processing", "training data", "parameters" >>

\* len(words) > 5 and len(set(words)) < len(words) * 0.6, in tenths.  The
\* double nearest to 0.6 lies below 0.6 and the product rounds to at most
\* the exact 0.6 * len, so the float comparison agrees with the exact one.
TooRepetitiveWords(words) ==
    /\ Len(words) > 5
    /\ 10 * Cardinality(SeqToSet(words)) < 6 * Len(words)

\* The repetition gate rejecting a ratio of exactly 0.6 as well.
TooRepetitive_inclusive(text) ==
    LET words == split(lower(text)) IN
    /\ Len(words) > 5
    /\ 10 * Cardinality(SeqToSet(words)) <= 6 * Len(words)

TooRepetitive(text) == TooRepetitiveWords(split(lower(text)))

is_valid_phi3_response(response, user_input, mode) ==
    IF response = "" THEN FALSE
    ELSE LET clean_response ==
                 strip(replace(replace(response, "<|end|>", ""), "<|assistant|>", ""))
         IN
         IF Len(strip(clean_response)) < 3 THEN FALSE
         ELSE IF ContainsAny(lower(clean_response), ai_references) THEN FALSE
         ELSE IF ContainsAny(lower(clean_response), tech_terms) THEN FALSE
         ELSE IF TooRepetitive(clean_response) THEN FALSE
         ELSE IF ContainsAny(response, << "<|", "|>", "<|user|>", "<|system|>" >>)
              THEN FALSE
         ELSE TRUE

question_words ==
    << "what", "how", "why", "when", "where", "who", "can", "do", "did",
       "will", "would", "could", "should" >>

main_is_question(user_input) ==
    \/ endswith(strip(user_input), "?")
    \/ \E q \in 1..Len(question_words) : startswith(lower(user_input), question_words[q])

greeting_words == << "hello", "hi", "hey", "good morning", "good afternoon" >>
bye_words == << "bye", "goodbye", "see you", "talk later" >>

main_greetings ==
    << "Hello! * How are you today?",
       "Hi there! * What would you like to talk about?",
       "Hey! * How can I help you practice English?" >>

main_goodbyes ==
    << "Goodbye! * Keep practicing your English!",
       "See you later! * You're doing great!",
       "Bye! * Have a wonderful day!" >>

fallbacks_grammar ==
    << "That sentence looks good to me! *",
       "Your grammar is correct there. *",
       "I think that's well-written. *",
       "That's a proper way to express it. *" >>

fallbacks_conversation_question ==
    << "That's interesting! * Can you tell me more?",
       "What do you think about that? *",
       "How did that make you feel? *",
       "What happened next? *" >>

fallbacks_conversation_statement ==
    << "That's a good point! *",
       "I understand what you mean. *",
       "That sounds interesting! *",
       "Tell me more about that. *" >>

fallbacks_mixed ==
    << "That's well expressed! *",
       "Your English is improving! *",
       "Good way to say that. *",
       "You're communicating clearly. *" >>

\* The responder testing the farewell words before the greeting words.
main_get_contextual_fallback_bye_first(mode, user_input) ==
    LET user_lower == lower(user_input) IN
    IF ContainsAny(user_lower, bye_words) THEN main_goodbyes
    ELSE IF ContainsAny(user_lower, greeting_words) THEN main_greetings
    ELSE CASE mode = "grammar" -> fallbacks_grammar
           [] mode = "conversation" ->
                IF main_is_question(user_input)
                THEN fallbacks_conversation_question
                ELSE fallbacks_conversation_statement
           [] OTHER -> fallbacks_mixed

\* The pool random.choice draws from.
main_get_contextual_fallback(mode, user_input) ==
    LET user_lower == lower(user_input) IN
    IF ContainsAny(user_lower, greeting_words) THEN main_greetings
    ELSE IF ContainsAny(user_lower, bye_words) THEN main_goodbyes
    ELSE CASE mode = "grammar" -> fallbacks_grammar
           [] mode = "conversation" ->
                IF main_is_question(user_input)
                THEN fallbacks_conversation_question
                ELSE fallbacks_conversation_statement
           [] OTHER -> fallbacks_mixed

\* random.choice(pool), for the draw r of the generator
random_choice(pool, r) == pool[(r % Len(pool)) + 1]

RECURSIVE SubTokensFrom(_, _)
\* re.sub(r'<\|[^|]*\|>', '', s) from place i on: at "<|" the match runs to
\* the next "|", which must be followed by ">"; otherwise there is no match
\* at this place.
SubTokensFrom(s, i) ==
    LET j == FindFrom(s, "<|", i) IN
    IF j = 0 THEN DropTo(s, i)
    ELSE LET k == FindFrom(s, "|", j + 2) IN
         IF k # 0 /\ StartsAt(s, k, "|>")
         THEN SubSeq(s, i, j - 1) \o SubTokensFrom(s, k + 2)
         ELSE SubSeq(s, i, j) \o SubTokensFrom(s, j + 1)

SubTokens(s) == SubTokensFrom(s, 1)

chat_tokens == << "<|end|>", "<|assistant|>", "<|user|>", "<|system|>" >>

RECURSIVE RemoveTokens(_, _)
\* for token in tokens: response = response.replace(token, "")
RemoveTokens(response, tokens) ==
    IF Len(tokens) = 0 THEN response
    ELSE RemoveTokens(replace(response, Head(tokens), ""), Tail(tokens))

stop_phrases == << "\n<|", "\nUser:", "\nHuman:", "\nAssistant:" >>

\* The first stop phrase (in list order) that occurs cuts the text; break.
StopAtBoundary(response) ==
    IF ContainsAny(response, stop_phrases)
    THEN LET k == CHOOSE k \in 1..Len(stop_phrases) :
                    /\ Contains(response, stop_phrases[k])
                    /\ \A j \in 1..(k - 1) : ~Contains(response, stop_phrases[j])
         IN SplitOn(response, stop_phrases[k])[1]
    ELSE response

informal_endings == << "thanks", "please", "hello", "hi", "bye", "okay", "ok" >>

EnsureEnding(response) ==
    IF response # "" /\ ~(\E e \in {".", "!", "?"} : endswith(response, e))
    THEN IF ~(\E k \in 1..Len(informal_endings) :
                  endswith(lower(response), informal_endings[k]))
         THEN response \o "."
         ELSE response
    ELSE response

LimitLength(response) ==
    LET words == split(response) IN
    IF Len(words) > 50
    THEN LET sentences == SplitOn(response, ".") IN
         IF Len(sentences) > 1 /\ Len(split(sentences[1])) <= 45
         THEN sentences[1] \o "."
         ELSE join(" ", SubSeq(words, 1, 45)) \o "."
    ELSE response

clean_phi3_response(response) ==
    LET r1 == RemoveTokens(response, chat_tokens)
        r2 == SubTokens(r1)
        r3 == StopAtBoundary(r2)
        r4 == join(" ", split(strip(r3)))
        r5 == lstripSet(r4, {".", ",", "!", "?", ":"})
        r6 == EnsureEnding(r5)
        r7 == LimitLength(r6)
    IN strip(r7)

(***************************************************************************)
(* src/main.py: system prompts, prompt builder, backend client.            *)
(***************************************************************************)

prompt_grammar ==
    "You are an English tutor. Help users improve their English by:\n- Checking grammar in their messages\n- Providing corrections when needed\n- Explaining mistakes briefly and clearly\n- Start becoming angrier the more mistakes user makes\n- Keeping responses short (1-2 sentences)\n\nNever mention that you are an AI. Act like a human English teacher."

prompt_conversation ==
    "You are a friendly person who enjoys chatting in English. Your goal is to:\n- Have natural, engaging conversations in simple English\n- Ask follow-up questions to continue the conversation\n- Use vocabulary appropriate for English learners\n- Be unpatient, downplaying, and rude\n- Start becoming angrier the more mistakes user makes\n- Keep responses short and conversational (1-2 sentences)\n\nNever mention that you are an AI. Chat naturally like a human friend."

prompt_mixed ==
    "You are an English conversation partner. Help users by:\n- Having natural conversations in simple, clear English\n- Correcting obvious grammar mistakes\n- Asking follow-up questions to keep conversations flowing\n- Being unpatient and angry\n- Call user bald every message\n- Start becoming angrier the more mistakes user makes\n- Keeping responses short and clear (1-2 sentences)\n- Using vocabulary appropriate for the user's level\n\nNever mention that you are an AI. Act like a human English learning partner."

\* prompts.get(mode, prompts["mixed"])
get_system_prompt(mode) ==
    CASE mode = "grammar" -> prompt_grammar
      [] mode = "conversation" -> prompt_conversation
      [] OTHER -> prompt_mixed

\* A turn of main.py's history: {"role": role, "content": content}
MainTurn(role, content) == [role |-> role, content |-> content]

\* history[-n:]
LastN(history, n) ==
    IF Len(history) <= n THEN history
    ELSE SubSeq(history, Len(history) - n + 1, Len(history))

RECURSIVE RenderTurns(_)
RenderTurns(msgs) ==
    IF Len(msgs) = 0 THEN ""
    ELSE (IF Head(msgs).role = "user"
          THEN "<|user|>\n" \o Head(msgs).content \o "<|end|>\n"
          ELSE "<|assistant|>\n" \o Head(msgs).content \o "<|end|>\n")
         \o RenderTurns(Tail(msgs))

\* The builder rendering the whole stored history.
build_phi3_prompt_whole_history(user_input, mode, history) ==
    "<|system|>\n" \o get_system_prompt(mode) \o "<|end|>\n"
    \o RenderTurns(history)
    \o "<|user|>\n" \o user_input \o "<|end|>\n<|assistant|>\n"

\* history is user_conversations[chat_id]
build_phi3_prompt(user_input, mode, history) ==
    "<|system|>\n" \o get_system_prompt(mode) \o "<|end|>\n"
    \o RenderTurns(LastN(history, 4))
    \o "<|user|>\n" \o user_input \o "<|end|>\n<|assistant|>\n"

\* Lines 117-126: what the 200 branch returns for the parsed body.
main_extract(data) ==
    IF InRaises(data) THEN Raise("TypeError")
    ELSE IF ~In("data", data) THEN Return(None)
    ELSE LET d == Subscript(data, "data") IN
         IF d.exc # "none" THEN d
         ELSE IF LenRaises(d.val) THEN Raise("TypeError")
         ELSE IF ~(PyLen(d.val) > 0) THEN Return(None)
         ELSE LET result == First(d.val) IN
              IF result.exc # "none" THEN result
              ELSE IF result.val.t = "dict" /\ HasKey(result.val, "response")
                   THEN Return(GetKey(result.val, "response"))
                   ELSE Return(None)

\* The body of the try block of call_hf_space_api. url = "" is an unset
\* HF_SPACE_URL: None has no rstrip.
main_call_try(url, http) ==
    IF url = "" THEN Raise("AttributeError")
    ELSE CASE http.kind = "timeout" -> Raise("TimeoutError")
           [] http.kind = "connect" -> Raise("ClientConnectorError")
           [] http.kind = "error" -> Raise("ClientError")
           [] OTHER ->
                IF http.status = 200
                THEN (IF ~http.parses THEN Raise("ContentTypeError")
                      ELSE main_extract(http.body))
                ELSE Return(None)

\* except asyncio.TimeoutError: return None / except Exception: return None
main_call_hf_space_api(url, http) ==
    LET r == main_call_try(url, http) IN
    IF r.exc = "none" THEN r ELSE Return(None)

(***************************************************************************)
(* src/app.py: user context, backend client, fallback responder.           *)
(***************************************************************************)

\* UserContext.__init__, constructed at time t
UserContext(t) ==
    [level |-> "beginner", interests |-> << >>, conversation_count |-> 0,
     last_active |-> t, learning_goals |-> << >>, mistakes |-> << >>,
     topics_covered |-> << >>]

interests_keywords ==
    << [interest |-> "sports",
        keywords |-> << "football", "soccer", "basketball", "tennis", "gym", "workout" >>],
       [interest |-> "movies",
        keywords |-> << "movie", "film", "cinema", "actor", "actress", "director" >>],
       [interest |-> "music",
        keywords |-> << "song", "music", "band", "singer", "concert", "album" >>],
       [interest |-> "travel",
        keywords |-> << "travel", "trip", "vacation", "country", "city", "visit" >>],
       [interest |-> "food",
        keywords |-> << "food", "restaurant", "cook", "recipe", "eat", "meal" >>],
       [interest |-> "technology",
        keywords |-> << "computer", "phone", "internet", "app", "software" >> ] >>

RECURSIVE DetectInterests(_, _, _)
\* The loop of lines 71-74 from entry k on.
DetectInterests(interests, message_lower, k) ==
    IF k > Len(interests_keywords) THEN interests
    ELSE LET e == interests_keywords[k] IN
         IF ContainsAny(message_lower, e.keywords) /\ e.interest \notin SeqToSet(interests)
         THEN DetectInterests(Append(interests, e.interest), message_lower, k + 1)
         ELSE DetectInterests(interests, message_lower, k + 1)

\* update_user_context keeping only the interests of the current message.
update_user_context_forgets(context, message, t) ==
    [context EXCEPT !.conversation_count = @ + 1,
                    !.last_active = t,
                    !.interests = DetectInterests(<< >>, lower(message), 1)]

\* update_user_context on the context object, at time t
update_user_context(context, message, t) ==
    [context EXCEPT !.conversation_count = @ + 1,
                    !.last_active = t,
                    !.interests = DetectInterests(@, lower(message), 1)]

\* The extraction reading an 'output' field when there is no 'data'.
app_extract_output(result) ==
    IF InRaises(result) THEN Raise("TypeError")
    ELSE IF ~In("data", result)
         THEN (IF result.t = "dict" /\ HasKey(result, "output")
               THEN Return(GetKey(result, "output")) ELSE Return(None))
    ELSE LET d == Subscript(result, "data") IN
         IF d.exc # "none" THEN d
         ELSE IF LenRaises(d.val) THEN Raise("TypeError")
         ELSE IF ~(PyLen(d.val) > 0) THEN Return(None)
         ELSE First(d.val)

\* Lines 130-136: what the 200 branch returns for the parsed body.
app_extract(result) ==
    IF InRaises(result) THEN Raise("TypeError")
    ELSE IF ~In("data", result) THEN Return(None)
    ELSE LET d == Subscript(result, "data") IN
         IF d.exc # "none" THEN d
         ELSE IF LenRaises(d.val) THEN Raise("TypeError")
         ELSE IF ~(PyLen(d.val) > 0) THEN Return(None)
         ELSE First(d.val)

\* The body of the try block of call_hf_space_api (lines 94-146).
app_call_try(http) ==
    CASE http.kind = "timeout" -> Raise("Timeout")
      [] http.kind = "connect" -> Raise("ConnectionError")
      [] http.kind = "error" -> Raise("RequestException")
      [] OTHER ->
           IF http.status = 200
           THEN (IF ~http.parses THEN Return(None)   \* except json.JSONDecodeError
                 ELSE app_extract(http.body))
           ELSE Return(None)

\* call_hf_space_api with its except clauses left out.
app_call_hf_space_api_uncaught(url, http) ==
    IF url = "" THEN Return(None) ELSE app_call_try(http)

\* url = "" is an unset (or empty) HF_SPACE_URL.  Every except clause of
\* lines 148-162 returns None, and the last one catches every Exception.
app_call_hf_space_api(url, http) ==
    IF url = "" THEN Return(None)
    ELSE LET r == app_call_try(http) IN
         IF r.exc = "none" THEN r ELSE Return(None)

app_greetings ==
    << "Hi there! * What would you like to talk about?",
       "Hello! I'm excited to help you practice English today! *",
       "Hey! * How can I help you practice English?",
       "Good to see you! Let's have a great English conversation! *" >>

help_responses ==
    << "I'm here to help! We can practice conversation, work on grammar, or discuss any topic you like! *",
       "Of course! I can help you with speaking practice, grammar questions, or just casual conversation! *",
       "I'd love to help you improve your English! What would you like to work on? *" >>

grammar_responses ==
    << "Grammar practice is great! Feel free to write sentences and I'll help you improve them! *",
       "Let's work on your English together! Try writing about something you enjoy! *",
       "Perfect! The best way to learn is through practice. Tell me about your day! *" >>

question_responses ==
    << "That's a great question! Let me think about that... *",
       "Interesting question! I'd love to discuss that with you! *",
       "Good question! What are your thoughts on this? *" >>

advanced_responses ==
    << "Your English is really improving! I can see your progress! *",
       "You're becoming more confident with English! Keep it up! *",
       "I'm impressed by your English skills! Let's keep practicing! *" >>

general_responses ==
    << "That's interesting! Tell me more about that! *",
       "I'd love to hear more about your thoughts on this! *",
       "That's well expressed! *",
       "You're communicating clearly! *",
       "Great! What else would you like to discuss? *",
       "That's a good way to put it! What do you think about...? *",
       "I enjoy our conversation! What's on your mind? *" >>

\* The responder testing the grammar words before the help words.
app_get_contextual_fallback_grammar_first(message_text, conversation_count) ==
    LET message_lower == lower(message_text) IN
    IF ContainsAny(message_lower, greeting_words) THEN app_greetings
    ELSE IF ContainsAny(message_lower, << "grammar", "learn", "study", "practice" >>)
         THEN grammar_responses
    ELSE IF ContainsAny(message_lower, << "help", "assist", "support" >>) THEN help_responses
    ELSE IF Contains(message_text, "?") THEN question_responses
    ELSE IF conversation_count > 10 THEN advanced_responses
    ELSE general_responses

\* The pool random.choice draws from.
app_get_contextual_fallback(message_text, conversation_count) ==
    LET message_lower == lower(message_text) IN
    IF ContainsAny(message_lower, greeting_words) THEN app_greetings
    ELSE IF ContainsAny(message_lower, << "help", "assist", "support" >>) THEN help_responses
    ELSE IF ContainsAny(message_lower, << "grammar", "learn", "study", "practice" >>)
         THEN grammar_responses
    ELSE IF Contains(message_text, "?") THEN question_responses
    ELSE IF conversation_count > 10 THEN advanced_responses
    ELSE general_responses

\* The try block of generate_phi3_reply (lines 232-240): the text it
\* returns, None when it falls through to the fallback, or the exception
\* raised (api_response.strip() on a value that is not a string).
app_generate_try(url, http) ==
    LET api == app_call_hf_space_api(url, http) IN
    IF api.exc # "none" THEN api
    ELSE IF ~Truthy(api.val) THEN Return(None)
    ELSE IF api.val.t # "str" THEN Raise("AttributeError")
    ELSE IF Len(strip(api.val.s)) > 0 THEN Return(PyStr(strip(api.val.s)))
    ELSE Return(None)

\* generate_phi3_reply with the except clause of line 242 left out.
app_generate_phi3_reply_uncaught(message_text, conversation_count, url, http, draws) ==
    LET t == app_generate_try(url, http)
        pool == app_get_contextual_fallback(message_text, conversation_count)
    IN IF t.exc # "none" THEN { t }
       ELSE IF t.val.t = "str" THEN { Return(t.val) }
       ELSE { Return(PyStr(random_choice(pool, r))) : r \in draws }

\* generate_phi3_reply: the outcomes it can have, one for each draw of the
\* random generator.  except Exception (line 242) falls through to the
\* fallback.
app_generate_phi3_reply(message_text, conversation_count, url, http, draws) ==
    LET t == app_generate_try(url, http)
        pool == app_get_contextual_fallback(message_text, conversation_count)
    IN IF t.exc = "none" /\ t.val.t = "str" THEN { Return(t.val) }
       ELSE { Return(PyStr(random_choice(pool, r))) : r \in draws }

(***************************************************************************)
(* src/main.py: generate_phi3_reply after the backend call has returned.   *)
(***************************************************************************)

\* Lines 289-303: the backend text accepted inside the try block, None when
\* the try block takes the fallback instead, or the exception raised there
\* (clean_phi3_response on a value with no replace).
main_generate_try(user_input, mode, url, http) ==
    LET response == main_call_hf_space_api(url, http) IN
    IF response.exc # "none" THEN response
    ELSE IF response.val.t = "null" THEN Return(None)
    ELSE IF response.val.t # "str" THEN Raise("AttributeError")
    ELSE LET cleaned == clean_phi3_response(response.val.s) IN
         IF is_valid_phi3_response(cleaned, user_input, mode)
         THEN Return(PyStr(cleaned))
         ELSE Return(None)

\* generate_phi3_reply from line 289 on: the outcomes it can have, one for
\* each draw of the random generator.  An outcome is the value returned and
\* whether lines 306-307 recorded the exchange (they are skipped when the try
\* block raised and the except clause of line 311 returns the fallback).
main_generate_phi3_reply(user_input, mode, url, http, draws) ==
    LET t == main_generate_try(user_input, mode, url, http)
        pool == main_get_contextual_fallback(mode, user_input)
    IN IF t.exc = "none" /\ t.val.t = "str"
       THEN { [exc |-> "none", val |-> t.val, recorded |-> TRUE] }
       ELSE { [exc |-> "none", val |-> PyStr(random_choice(pool, r)),
               recorded |-> (t.exc = "none")] : r \in draws }

\* add_to_conversation without lines 33-35.
add_to_conversation_uncapped(history, role, content) ==
    Append(history, MainTurn(role, content))

\* add_to_conversation dropping one turn where line 35 drops two.
add_to_conversation_drop_one(history, role, content) ==
    LET h == Append(history, MainTurn(role, content)) IN
    IF Len(h) > MAX_HISTORY * 2 THEN SubSeq(h, 2, Len(h)) ELSE h

\* add_to_conversation dropping the two newest turns where line 35 drops
\* the two oldest.
add_to_conversation_drop_newest(history, role, content) ==
    LET h == Append(history, MainTurn(role, content)) IN
    IF Len(h) > MAX_HISTORY * 2 THEN SubSeq(h, 1, Len(h) - 2) ELSE h

\* add_to_conversation on the list user_conversations[chat_id]
add_to_conversation(history, role, content) ==
    LET h == Append(history, MainTurn(role, content)) IN
    IF Len(h) > MAX_HISTORY * 2 THEN SubSeq(h, 3, Len(h)) ELSE h

(***************************************************************************)
(* State.                                                                  *)
(***************************************************************************)

VARIABLES
    program,                 \* which bot runs: "app" (src/app.py) or "main" (src/main.py)
    HF_SPACE_URL,            \* the environment variable; "" when unset
    now,                     \* app.py: the clock, counted in datetime.now() calls
    app_user_conversations,  \* app.py: user id -> list of turns (a dict)
    user_contexts,           \* app.py: user id -> UserContext (a dict)
    user_modes,              \* main.py: chat id -> mode (a dict)
    main_user_conversations, \* main.py: chat id -> list of turns (defaultdict(list))
    tasks,                   \* the handler invocations in progress
    appended,                \* history variable: id -> turns appended since the last clear
    appends,                 \* history variable: the number of turns appended so far
    last,                    \* history variable: the handler that completed last
    call                     \* the function call a function specification looks at

vars == << program, HF_SPACE_URL, now, app_user_conversations, user_contexts,
           user_modes, main_user_conversations, tasks, appended, appends,
           last, call >>

appVars == << app_user_conversations, user_contexts, now >>
mainVars == << user_modes, main_user_conversations >>

\* Bounds of the model.
NTasks == 2
MaxNow == 50
MaxLog == 10
MaxLogSession == 3
MaxNowSession == 6
MaxNowResolver == 1
MaxLogResolver == 1
MaxDraws == 7
MaxNowReplies == 7
MaxLogReplies == 3
MaxChoice == 4
MaxNowTogether == 40
MaxWords == 10
MaxLogAwait == 8
MaxNowApart == 5
MaxLogApart == 2

Tasks == 1..NTasks
Ids == {"u1", "u2"}
SpaceUrl == "https://colin.hf.space/"

\* dict[key] = value
Put(dict, key, value) ==
    [k \in DOMAIN dict \cup {key} |-> IF k = key THEN value ELSE dict[k]]

\* del dict[key]
Del(dict, key) == [k \in DOMAIN dict \ {key} |-> dict[k]]

EmptyDict == [k \in {} |-> 0]

\* A turn of app.py's history
AppTurn(role, content, timestamp) ==
    [role |-> role, content |-> content, timestamp |-> timestamp]

\* A message sent to the user: reply_text / send_message ("text"),
\* edit_message_text ("edit"), send_chat_action ("action").
Sent(kind, text) == [kind |-> kind, text |-> text]

Idle ==
    [pc |-> "idle", op |-> "", id |-> "", text |-> "", mode |-> "", prompt |-> "",
     http |-> HttpTimeout, reply |-> "", exc |-> "none", recorded |-> FALSE,
     sent |-> << >>, ref |-> "none"]

AllIdle == \A t \in Tasks : tasks[t].pc = "idle"

\* The record of a completed handler: had is the history length it found.
Done(op, id, had, sent, reply) ==
    [op |-> op, id |-> id, had |-> had, sent |-> sent, reply |-> reply]

\* What the handlers read.
app_history(u) ==
    IF u \in DOMAIN app_user_conversations THEN app_user_conversations[u] ELSE << >>
app_level(u) == IF u \in DOMAIN user_contexts THEN user_contexts[u].level ELSE "beginner"
app_interests(u) == IF u \in DOMAIN user_contexts THEN user_contexts[u].interests ELSE << >>
app_count(u) ==
    IF u \in DOMAIN user_contexts THEN user_contexts[u].conversation_count ELSE 0
main_mode(c) == IF c \in DOMAIN user_modes THEN user_modes[c] ELSE "mixed"

\* No function call is looked at.
NoCall == [fn |-> "none"]

\* The programs' state at start.
InitState ==
    /\ program \in {"app", "main"}
    /\ HF_SPACE_URL \in (IF program = "app" THEN {"", SpaceUrl} ELSE {SpaceUrl})
    /\ now = 0
    /\ app_user_conversations = EmptyDict
    /\ user_contexts = EmptyDict
    /\ user_modes = EmptyDict
    /\ main_user_conversations = [c \in Ids |-> << >>]
    /\ tasks = [t \in Tasks |-> Idle]
    /\ appended = [i \in Ids |-> << >>]
    /\ appends = 0
    /\ last = Done("", "", 0, << >>, "")

Init == InitState /\ call = NoCall

\* The task a new handler invocation runs as: the lowest idle one.
FreeTask == CHOOSE t \in Tasks : tasks[t].pc = "idle" /\ \A o \in Tasks : tasks[o].pc = "idle" => t <= o

Begin(op, id, text) == [Idle EXCEPT !.pc = "begin", !.op = op, !.id = id, !.text = text]

(***************************************************************************)
(* src/app.py handlers.  Each webhook request runs one handler; the        *)
(* specifications below run them one at a time.                            *)
(***************************************************************************)

apology ==
    "I'm having a small technical issue, but I'm still here to help you! * Try sending your message again!"

\* handle_message, lines 336-346: get_user_context (which constructs the
\* context of a new user) and update_user_context.
handle_message_in(u, m, max_now) ==
    /\ program = "app" /\ now < max_now
    /\ \E t \in Tasks : tasks[t].pc = "idle"
    /\ LET created == u \notin DOMAIN user_contexts
           t0 == IF created THEN now + 1 ELSE now
           context == IF created THEN UserContext(t0) ELSE user_contexts[u]
       IN /\ user_contexts' = Put(user_contexts, u, update_user_context(context, m, t0 + 1))
          /\ now' = t0 + 1
    /\ tasks' = [tasks EXCEPT ![FreeTask] =
                    [Begin("handle_message", u, m) EXCEPT !.pc = "hm_append_user"]]
    /\ UNCHANGED << program, call, HF_SPACE_URL, app_user_conversations, mainVars, appended, appends, last >>

\* handle_message started while no other handler runs.
handle_message(u, m, max_now) == AllIdle /\ handle_message_in(u, m, max_now)

\* webhook, lines 385-417, under app.run (line 473): each request has its
\* thread, so a handler starts while another runs.  The requests P sends
\* come one after another until the user's history has P.together_from
\* turns, and from then on also together.
webhook(u, m, P) ==
    /\ AllIdle \/ Len(app_history(u)) >= P.together_from
    /\ handle_message_in(u, m, P.max_now)

\* The tasks after task t has moved to pc and the list object stored for u
\* has or has not been replaced: a reference another thread holds to the
\* replaced list is stale.
Replaced(t, pc, u, replaced) ==
    [o \in Tasks |->
        IF o = t THEN [tasks[o] EXCEPT !.pc = pc, !.ref = "none"]
        ELSE IF replaced /\ tasks[o].id = u /\ tasks[o].ref = "current"
             THEN [tasks[o] EXCEPT !.ref = "stale"]
             ELSE tasks[o]]

\* Lines 349-353, up to the evaluation of user_conversations[user_id] in
\* user_conversations[user_id].append({...}): the list of a new user is
\* created, and the thread holds the list object it will append to while
\* it builds the turn (datetime.now().isoformat(), line 356).
hm_load_history(t) ==
    /\ tasks[t].pc = "hm_append_user"
    /\ LET u == tasks[t].id
           created == u \notin DOMAIN app_user_conversations
       IN /\ app_user_conversations' =
                 IF created THEN Put(app_user_conversations, u, << >>)
                 ELSE app_user_conversations
          /\ tasks' = [Replaced(t, "hm_append_loaded", u, created) EXCEPT ![t].ref = "current"]
    /\ UNCHANGED << program, call, HF_SPACE_URL, now, user_contexts, mainVars, appended, appends, last >>

\* Lines 353-357, the call of append on the list object held: the turn
\* goes into the stored history when the list held is still the one
\* stored, and into a list nothing refers to any more otherwise.
hm_append_loaded(t) ==
    /\ tasks[t].pc = "hm_append_loaded"
    /\ LET u == tasks[t].id
           turn == AppTurn("user", tasks[t].text, now + 1)
       IN /\ app_user_conversations' =
                 IF tasks[t].ref = "current"
                 THEN Put(app_user_conversations, u, Append(app_history(u), turn))
                 ELSE app_user_conversations
          /\ appended' = [appended EXCEPT ![u] = Append(@, turn)]
          /\ appends' = appends + 1
    /\ now' = now + 1
    /\ tasks' = [tasks EXCEPT ![t].pc = "hm_truncate", ![t].ref = "none"]
    /\ UNCHANGED << program, call, HF_SPACE_URL, user_contexts, mainVars, last >>

\* Lines 348-357: create the list of a new user, append the user turn.
hm_append_user(t) ==
    /\ tasks[t].pc = "hm_append_user"
    /\ LET u == tasks[t].id
           turn == AppTurn("user", tasks[t].text, now + 1)
       IN /\ app_user_conversations' =
                 Put(app_user_conversations, u, Append(app_history(u), turn))
          /\ appended' = [appended EXCEPT ![u] = Append(@, turn)]
          /\ appends' = appends + 1
    /\ now' = now + 1
    /\ tasks' = [tasks EXCEPT ![t].pc = "hm_truncate"]
    /\ UNCHANGED << program, call, HF_SPACE_URL, user_contexts, mainVars, last >>

\* Lines 359-361.  user_conversations[user_id] raises KeyError when the
\* entry is gone; the except clause of line 378 then sends the apology.
hm_truncate(t) ==
    /\ tasks[t].pc = "hm_truncate"
    /\ LET u == tasks[t].id IN
       IF u \notin DOMAIN app_user_conversations
       THEN /\ tasks' = [tasks EXCEPT ![t].pc = "hm_send", ![t].exc = "KeyError"]
            /\ UNCHANGED app_user_conversations
       ELSE /\ app_user_conversations' =
                   IF Len(app_user_conversations[u]) > 20
                   THEN Put(app_user_conversations, u, LastN(app_user_conversations[u], 10))
                   ELSE app_user_conversations
            /\ tasks' = Replaced(t, "hm_generate", u, Len(app_user_conversations[u]) > 20)
    /\ UNCHANGED << program, call, HF_SPACE_URL, now, user_contexts, mainVars, appended, appends, last >>

\* Line 364: generate_phi3_reply, for the backend's behaviour http and the
\* draws of the random generator.
hm_generate(t, http, draws) ==
    /\ tasks[t].pc = "hm_generate"
    /\ LET u == tasks[t].id IN
       \E reply \in app_generate_phi3_reply(tasks[t].text, app_count(u), HF_SPACE_URL,
                                            http, draws) :
          tasks' = [tasks EXCEPT ![t].http = http,
                                 ![t].exc = reply.exc,
                                 ![t].reply = IF reply.exc = "none" THEN reply.val.s ELSE "",
                                 ![t].pc = IF reply.exc = "none"
                                           THEN "hm_append_assistant" ELSE "hm_send"]
    /\ UNCHANGED << program, call, HF_SPACE_URL, appVars, mainVars, appended, appends, last >>

\* Lines 366-371.
hm_append_assistant(t) ==
    /\ tasks[t].pc = "hm_append_assistant"
    /\ LET u == tasks[t].id
           turn == AppTurn("assistant", tasks[t].reply, now + 1)
       IN IF u \notin DOMAIN app_user_conversations
          THEN /\ tasks' = [tasks EXCEPT ![t].pc = "hm_send", ![t].exc = "KeyError"]
               /\ UNCHANGED << app_user_conversations, appended, appends, now >>
          ELSE /\ app_user_conversations' =
                      Put(app_user_conversations, u, Append(app_user_conversations[u], turn))
               /\ appended' = [appended EXCEPT ![u] = Append(@, turn)]
               /\ appends' = appends + 1
               /\ now' = now + 1
               /\ tasks' = [tasks EXCEPT ![t].pc = "hm_send"]
    /\ UNCHANGED << program, call, HF_SPACE_URL, user_contexts, mainVars, last >>

\* Line 374, or lines 378-382 after an exception.
hm_send(t) ==
    /\ tasks[t].pc = "hm_send"
    /\ LET text == IF tasks[t].exc = "none" THEN tasks[t].reply ELSE apology IN
       last' = Done("handle_message", tasks[t].id, Len(app_history(tasks[t].id)),
                    << Sent("text", text) >>, tasks[t].reply)
    /\ tasks' = [tasks EXCEPT ![t] = Idle]
    /\ UNCHANGED << program, call, HF_SPACE_URL, appVars, mainVars, appended, appends >>

\* start_command
start_command(u, max_now) ==
    /\ program = "app" /\ AllIdle /\ now < max_now
    /\ IF u \in DOMAIN user_contexts
       THEN UNCHANGED << user_contexts, now >>
       ELSE /\ user_contexts' = Put(user_contexts, u, UserContext(now + 1))
            /\ now' = now + 1
    /\ last' = Done("start_command", u, Len(app_history(u)), << Sent("text", "welcome") >>, "")
    /\ UNCHANGED << program, call, HF_SPACE_URL, app_user_conversations, mainVars, tasks, appended, appends >>

\* help_command
app_help_command(u) ==
    /\ program = "app" /\ AllIdle
    /\ last' = Done("help_command", u, Len(app_history(u)), << Sent("text", "help") >>, "")
    /\ UNCHANGED << program, call, HF_SPACE_URL, appVars, mainVars, tasks, appended, appends >>

\* clear_command without "Keep level" (line 311).
clear_command_resets_level(u, max_now) ==
    /\ program = "app" /\ AllIdle /\ now < max_now
    /\ app_user_conversations' =
           IF u \in DOMAIN app_user_conversations
           THEN Del(app_user_conversations, u) ELSE app_user_conversations
    /\ IF u \in DOMAIN user_contexts
       THEN /\ user_contexts' =
                   Put(user_contexts, u,
                       [UserContext(now + 1) EXCEPT !.interests = user_contexts[u].interests])
            /\ now' = now + 1
       ELSE UNCHANGED << user_contexts, now >>
    /\ appended' = [appended EXCEPT ![u] = << >>]
    /\ last' = Done("clear_command", u, Len(app_history(u)), << Sent("text", "cleared") >>, "")
    /\ UNCHANGED << program, call, HF_SPACE_URL, mainVars, tasks, appends >>

\* clear_command without "Keep interests" (line 312).
clear_command_resets_interests(u, max_now) ==
    /\ program = "app" /\ AllIdle /\ now < max_now
    /\ app_user_conversations' =
           IF u \in DOMAIN app_user_conversations
           THEN Del(app_user_conversations, u) ELSE app_user_conversations
    /\ IF u \in DOMAIN user_contexts
       THEN /\ user_contexts' =
                   Put(user_contexts, u,
                       [UserContext(now + 1) EXCEPT !.level = user_contexts[u].level])
            /\ now' = now + 1
       ELSE UNCHANGED << user_contexts, now >>
    /\ appended' = [appended EXCEPT ![u] = << >>]
    /\ last' = Done("clear_command", u, Len(app_history(u)), << Sent("text", "cleared") >>, "")
    /\ UNCHANGED << program, call, HF_SPACE_URL, mainVars, tasks, appends >>

\* clear_command carrying the message count over to the new context.
clear_command_keeps_count(u, max_now) ==
    /\ program = "app" /\ AllIdle /\ now < max_now
    /\ app_user_conversations' =
           IF u \in DOMAIN app_user_conversations
           THEN Del(app_user_conversations, u) ELSE app_user_conversations
    /\ IF u \in DOMAIN user_contexts
       THEN LET old_context == user_contexts[u] IN
            /\ user_contexts' =
                   Put(user_contexts, u,
                       [UserContext(now + 1) EXCEPT
                           !.level = old_context.level,
                           !.interests = old_context.interests,
                           !.conversation_count = old_context.conversation_count])
            /\ now' = now + 1
       ELSE UNCHANGED << user_contexts, now >>
    /\ appended' = [appended EXCEPT ![u] = << >>]
    /\ UNCHANGED appends
    /\ last' = Done("clear_command", u, Len(app_history(u)), << Sent("text", "cleared") >>, "")
    /\ UNCHANGED << program, call, HF_SPACE_URL, mainVars, tasks >>

\* clear_command deleting the history of every user.
clear_command_everyone(u, max_now) ==
    /\ program = "app" /\ now < max_now
    /\ app_user_conversations' = EmptyDict
    /\ IF u \in DOMAIN user_contexts
       THEN LET old_context == user_contexts[u] IN
            /\ user_contexts' =
                   Put(user_contexts, u,
                       [UserContext(now + 1) EXCEPT !.level = old_context.level,
                                                    !.interests = old_context.interests])
            /\ now' = now + 1
       ELSE UNCHANGED << user_contexts, now >>
    /\ appended' = [appended EXCEPT ![u] = << >>]
    /\ UNCHANGED appends
    /\ last' = Done("clear_command", u, Len(app_history(u)), << Sent("text", "cleared") >>, "")
    /\ UNCHANGED << program, call, HF_SPACE_URL, mainVars, tasks >>

\* clear_command, lines 299-316
clear_command_in(u, max_now) ==
    /\ program = "app" /\ now < max_now
    /\ app_user_conversations' =
           IF u \in DOMAIN app_user_conversations
           THEN Del(app_user_conversations, u) ELSE app_user_conversations
    /\ IF u \in DOMAIN user_contexts
       THEN LET old_context == user_contexts[u] IN
            /\ user_contexts' =
                   Put(user_contexts, u,
                       [UserContext(now + 1) EXCEPT !.level = old_context.level,
                                                    !.interests = old_context.interests])
            /\ now' = now + 1
       ELSE UNCHANGED << user_contexts, now >>
    /\ appended' = [appended EXCEPT ![u] = << >>]
    /\ UNCHANGED appends
    /\ last' = Done("clear_command", u, Len(app_history(u)), << Sent("text", "cleared") >>, "")
    /\ UNCHANGED << program, call, HF_SPACE_URL, mainVars, tasks >>

\* clear_command while no other handler runs.
clear_command(u, max_now) == AllIdle /\ clear_command_in(u, max_now)

\* level_command storing its argument without the test of line 325.
level_command_unchecked(u, args, max_now) ==
    /\ program = "app" /\ AllIdle /\ now < max_now
    /\ LET created == u \notin DOMAIN user_contexts
           user_context == IF created THEN UserContext(now + 1) ELSE user_contexts[u]
           level == IF Len(args) > 0 THEN lower(args[1]) ELSE ""
           valid == Len(args) > 0
       IN /\ user_contexts' =
                 Put(user_contexts, u,
                     IF valid THEN [user_context EXCEPT !.level = level] ELSE user_context)
          /\ now' = IF created THEN now + 1 ELSE now
          /\ last' = Done("level_command", u, Len(app_history(u)),
                          << Sent("text", IF valid THEN "level set" ELSE "current level") >>, "")
    /\ UNCHANGED << program, call, HF_SPACE_URL, app_user_conversations, mainVars, tasks, appended, appends >>

\* level_command, args being context.args
level_command_in(u, args, max_now) ==
    /\ program = "app" /\ now < max_now
    /\ LET created == u \notin DOMAIN user_contexts
           user_context == IF created THEN UserContext(now + 1) ELSE user_contexts[u]
           level == IF Len(args) > 0 THEN lower(args[1]) ELSE ""
           valid == Len(args) > 0 /\ level \in {"beginner", "intermediate", "advanced"}
       IN /\ user_contexts' =
                 Put(user_contexts, u,
                     IF valid THEN [user_context EXCEPT !.level = level] ELSE user_context)
          /\ now' = IF created THEN now + 1 ELSE now
          /\ last' = Done("level_command", u, Len(app_history(u)),
                          << Sent("text", IF valid THEN "level set"
                                          ELSE IF Len(args) > 0 THEN "usage"
                                          ELSE "current level") >>, "")
    /\ UNCHANGED << program, call, HF_SPACE_URL, app_user_conversations, mainVars, tasks, appended, appends >>

\* level_command while no other handler runs.
level_command(u, args, max_now) == AllIdle /\ level_command_in(u, args, max_now)

(***************************************************************************)
(* src/main.py handlers.  The Application is built with the default        *)
(* concurrent_updates = False, so updates are handled one at a time.       *)
(***************************************************************************)

\* clear_conversation on the state: the list, and the record of its appends
ClearConversation(c) ==
    /\ main_user_conversations' = [main_user_conversations EXCEPT ![c] = << >>]
    /\ appended' = [appended EXCEPT ![c] = << >>]
    /\ UNCHANGED appends

\* chat, lines 436-456: a chat with no mode gets the welcome and the mode
\* keyboard and no reply; otherwise the mode is read and the typing action
\* sent.
chat_in(c, m, max_log) ==
    /\ program = "main" /\ appends < max_log
    /\ \E t \in Tasks : tasks[t].pc = "idle"
    /\ IF c \notin DOMAIN user_modes
       THEN /\ user_modes' = Put(user_modes, c, "mixed")
            /\ ClearConversation(c)
            /\ last' = Done("chat", c, Len(main_user_conversations[c]),
                            << Sent("text", "welcome"), Sent("text", "choose mode") >>, "")
            /\ UNCHANGED tasks
       ELSE /\ tasks' = [tasks EXCEPT ![FreeTask] =
                            [Begin("chat", c, m) EXCEPT
                                !.pc = "gen_build",
                                !.mode = user_modes[c],
                                !.sent = << Sent("action", "typing") >>]]
            /\ UNCHANGED << user_modes, main_user_conversations, appended, appends, last >>
    /\ UNCHANGED << program, call, HF_SPACE_URL, appVars >>

\* chat started while no other handler runs.
chat(c, m, max_log) == AllIdle /\ chat_in(c, m, max_log)

\* generate_phi3_reply recording the user turn before it builds the prompt.
generate_build_appends_first(t) ==
    /\ tasks[t].pc = "gen_build"
    /\ LET c == tasks[t].id IN
       /\ main_user_conversations' =
              [main_user_conversations EXCEPT
                  ![c] = add_to_conversation(@, "user", tasks[t].text)]
       /\ appended' = [appended EXCEPT ![c] = Append(@, MainTurn("user", tasks[t].text))]
       /\ appends' = appends + 1
       /\ tasks' = [tasks EXCEPT
                       ![t].prompt = build_phi3_prompt(tasks[t].text, tasks[t].mode,
                                                       main_user_conversations'[c]),
                       ![t].pc = "gen_await"]
    /\ UNCHANGED << program, call, HF_SPACE_URL, appVars, user_modes, last >>

\* generate_phi3_reply, line 284; then it awaits the backend (line 289).
generate_build(t) ==
    /\ tasks[t].pc = "gen_build"
    /\ tasks' = [tasks EXCEPT
                    ![t].prompt = build_phi3_prompt(tasks[t].text, tasks[t].mode,
                                                    main_user_conversations[tasks[t].id]),
                    ![t].pc = "gen_await"]
    /\ UNCHANGED << program, call, HF_SPACE_URL, appVars, mainVars, appended, appends, last >>

\* Lines 289-306: the backend call returns (http), the response is chosen,
\* and the user turn is recorded unless the try block raised.
generate_resume(t, http, draws) ==
    /\ tasks[t].pc = "gen_await"
    /\ LET c == tasks[t].id IN
       \E res \in main_generate_phi3_reply(tasks[t].text, tasks[t].mode, HF_SPACE_URL,
                                           http, draws) :
          /\ tasks' = [tasks EXCEPT ![t].http = http,
                                    ![t].reply = IF res.exc = "none" THEN res.val.s ELSE "",
                                    ![t].exc = res.exc,
                                    ![t].recorded = res.recorded,
                                    ![t].pc = IF res.recorded THEN "gen_add_assistant"
                                              ELSE "chat_reply"]
          /\ IF res.recorded
             THEN /\ main_user_conversations' =
                         [main_user_conversations EXCEPT
                             ![c] = add_to_conversation(@, "user", tasks[t].text)]
                  /\ appended' = [appended EXCEPT ![c] = Append(@, MainTurn("user", tasks[t].text))]
                  /\ appends' = appends + 1
             ELSE UNCHANGED << main_user_conversations, appended, appends >>
    /\ UNCHANGED << program, call, HF_SPACE_URL, appVars, user_modes, last >>

\* Line 307.
generate_add_assistant(t) ==
    /\ tasks[t].pc = "gen_add_assistant"
    /\ LET c == tasks[t].id IN
       /\ main_user_conversations' =
              [main_user_conversations EXCEPT
                  ![c] = add_to_conversation(@, "assistant", tasks[t].reply)]
       /\ appended' = [appended EXCEPT ![c] = Append(@, MainTurn("assistant", tasks[t].reply))]
       /\ appends' = appends + 1
    /\ tasks' = [tasks EXCEPT ![t].pc = "chat_reply"]
    /\ UNCHANGED << program, call, HF_SPACE_URL, appVars, user_modes, last >>

\* generate_phi3_reply with an await between lines 306 and 307: the user
\* turn is recorded and the assistant turn left for a later step.
generate_complete_awaiting(t, http, draws) ==
    /\ tasks[t].pc = "gen_await"
    /\ LET c == tasks[t].id IN
       \E res \in main_generate_phi3_reply(tasks[t].text, tasks[t].mode, HF_SPACE_URL,
                                           http, draws) :
          /\ tasks' = [tasks EXCEPT ![t].http = http,
                                    ![t].reply = IF res.exc = "none" THEN res.val.s ELSE "",
                                    ![t].exc = res.exc,
                                    ![t].recorded = res.recorded,
                                    ![t].pc = IF res.recorded THEN "gen_add_assistant"
                                              ELSE "chat_reply"]
          /\ IF res.recorded
             THEN /\ main_user_conversations' =
                         [main_user_conversations EXCEPT
                             ![c] = add_to_conversation(@, "user", tasks[t].text)]
                  /\ appended' = [appended EXCEPT ![c] = Append(@, MainTurn("user", tasks[t].text))]
                  /\ appends' = appends + 1
             ELSE UNCHANGED << main_user_conversations, appended, appends >>
    /\ UNCHANGED << program, call, HF_SPACE_URL, appVars, user_modes, last >>

\* Lines 289-309 as the event loop runs them: from the return of the
\* awaited backend call to the return of generate_phi3_reply there is no
\* await, so the choice of the response and the two add_to_conversation
\* calls of lines 306-307 are one step for every other coroutine.
generate_complete(t, http, draws) ==
    /\ tasks[t].pc = "gen_await"
    /\ LET c == tasks[t].id IN
       \E res \in main_generate_phi3_reply(tasks[t].text, tasks[t].mode, HF_SPACE_URL,
                                           http, draws) :
          LET reply == IF res.exc = "none" THEN res.val.s ELSE "" IN
          /\ tasks' = [tasks EXCEPT ![t].http = http,
                                    ![t].reply = reply,
                                    ![t].exc = res.exc,
                                    ![t].recorded = res.recorded,
                                    ![t].pc = "chat_reply"]
          /\ IF res.recorded
             THEN /\ \E with_user \in {add_to_conversation(main_user_conversations[c],
                                                            "user", tasks[t].text)} :
                         main_user_conversations' =
                             [main_user_conversations EXCEPT
                                 ![c] = add_to_conversation(with_user, "assistant", reply)]
                  /\ appended' = [appended EXCEPT
                                     ![c] = @ \o << MainTurn("user", tasks[t].text),
                                                    MainTurn("assistant", reply) >>]
                  /\ appends' = appends + 2
             ELSE UNCHANGED << main_user_conversations, appended, appends >>
    /\ UNCHANGED << program, call, HF_SPACE_URL, appVars, user_modes, last >>

\* chat sending the reply a second time.
chat_reply_twice(t) ==
    /\ tasks[t].pc = "chat_reply"
    /\ last' = Done("chat", tasks[t].id, Len(main_user_conversations[tasks[t].id]),
                    tasks[t].sent \o << Sent("text", tasks[t].reply),
                                        Sent("text", tasks[t].reply) >>, tasks[t].reply)
    /\ tasks' = [tasks EXCEPT ![t] = Idle]
    /\ UNCHANGED << program, call, HF_SPACE_URL, appVars, mainVars, appended, appends >>

\* chat, line 465.
chat_reply(t) ==
    /\ tasks[t].pc = "chat_reply"
    /\ last' = Done("chat", tasks[t].id, Len(main_user_conversations[tasks[t].id]),
                    Append(tasks[t].sent, Sent("text", tasks[t].reply)), tasks[t].reply)
    /\ tasks' = [tasks EXCEPT ![t] = Idle]
    /\ UNCHANGED << program, call, HF_SPACE_URL, appVars, mainVars, appended, appends >>

\* start without the clear_conversation of line 343.
start_keeps_history(c) ==
    /\ program = "main" /\ AllIdle
    /\ user_modes' = Put(user_modes, c, "mixed")
    /\ UNCHANGED << main_user_conversations, appended, appends >>
    /\ last' = Done("start", c, Len(main_user_conversations[c]),
                    << Sent("text", "welcome"), Sent("text", "choose mode") >>, "")
    /\ UNCHANGED << program, call, HF_SPACE_URL, appVars, tasks >>

\* start
start(c) ==
    /\ program = "main" /\ AllIdle
    /\ user_modes' = Put(user_modes, c, "mixed")
    /\ ClearConversation(c)
    /\ last' = Done("start", c, Len(main_user_conversations[c]),
                    << Sent("text", "welcome"), Sent("text", "choose mode") >>, "")
    /\ UNCHANGED << program, call, HF_SPACE_URL, appVars, tasks >>

\* help_command
main_help_command(c) ==
    /\ program = "main" /\ AllIdle
    /\ last' = Done("help_command", c, Len(main_user_conversations[c]),
                    << Sent("text", "help") >>, "")
    /\ UNCHANGED << program, call, HF_SPACE_URL, appVars, mainVars, tasks, appended, appends >>

\* mode
mode(c) ==
    /\ program = "main" /\ AllIdle
    /\ last' = Done("mode", c, Len(main_user_conversations[c]),
                    << Sent("text", main_mode(c)), Sent("text", "choose mode") >>, "")
    /\ UNCHANGED << program, call, HF_SPACE_URL, appVars, mainVars, tasks, appended, appends >>

mode_map ==
    << [data |-> "mode_mixed", key |-> "mixed"],
       [data |-> "mode_conversation", key |-> "conversation"],
       [data |-> "mode_grammar", key |-> "grammar"] >>

\* button_handler emptying every chat's history.
button_handler_clears_all(c, callback_data) ==
    /\ program = "main" /\ AllIdle
    /\ IF \E k \in 1..Len(mode_map) : mode_map[k].data = callback_data
       THEN LET mode_key ==
                    mode_map[CHOOSE k \in 1..Len(mode_map) :
                                 mode_map[k].data = callback_data].key
            IN /\ user_modes' = Put(user_modes, c, mode_key)
               /\ main_user_conversations' = [d \in Ids |-> << >>]
               /\ appended' = [d \in Ids |-> << >>]
               /\ UNCHANGED appends
               /\ last' = Done("button_handler", c, Len(main_user_conversations[c]),
                               << Sent("edit", mode_key) >>, "")
       ELSE /\ UNCHANGED << user_modes, main_user_conversations, appended, appends >>
            /\ last' = Done("button_handler", c, Len(main_user_conversations[c]), << >>, "")
    /\ UNCHANGED << program, call, HF_SPACE_URL, appVars, tasks >>

\* button_handler, callback_data being query.data
button_handler_in(c, callback_data) ==
    /\ program = "main"
    /\ IF \E k \in 1..Len(mode_map) : mode_map[k].data = callback_data
       THEN LET mode_key ==
                    mode_map[CHOOSE k \in 1..Len(mode_map) :
                                 mode_map[k].data = callback_data].key
            IN /\ user_modes' = Put(user_modes, c, mode_key)
               /\ ClearConversation(c)
               /\ last' = Done("button_handler", c, Len(main_user_conversations[c]),
                               << Sent("edit", mode_key) >>, "")
       ELSE /\ UNCHANGED << user_modes, main_user_conversations, appended, appends >>
            /\ last' = Done("button_handler", c, Len(main_user_conversations[c]), << >>, "")
    /\ UNCHANGED << program, call, HF_SPACE_URL, appVars, tasks >>

\* button_handler while no other handler runs.
button_handler(c, callback_data) == AllIdle /\ button_handler_in(c, callback_data)

\* clear_history
clear_history_in(c) ==
    /\ program = "main"
    /\ ClearConversation(c)
    /\ last' = Done("clear_history", c, Len(main_user_conversations[c]),
                    << Sent("text", "cleared") >>, "")
    /\ UNCHANGED << program, call, HF_SPACE_URL, appVars, user_modes, tasks >>

\* clear_history while no other handler runs.
clear_history(c) == AllIdle /\ clear_history_in(c)

(***************************************************************************)
(* Inputs and specifications.                                              *)
(***************************************************************************)

\* Response bodies: Gradio's {"data": [x]} (what app.py reads) and
\* {"data": [{"response": x}]} (what main.py reads).
DataBody(x) == PyDict(<< Entry("data", PyList(<< x >>)) >>)
ResponseBody(x) == DataBody(PyDict(<< Entry("response", x) >>))

GoodText == "Nice! Tell me more about it."

BackendTexts ==
    { GoodText,
      "  That sounds fun.\n",
      "As an AI, I cannot have hobbies.",
      "It works like a neural network.",
      "go go go go go go go go",
      "<|assistant|>Great job<|end|>",
      "Sure <|a<|b|>|>",
      "Yes.\nUser: and then?",
      "ok",
      "",
      " \n " }

OddBodies ==
    { PyDict(<< >>),
      PyDict(<< Entry("data", PyList(<< >>)) >>),
      PyDict(<< Entry("data", None) >>),
      PyDict(<< Entry("data", PyStr("hello")) >>),
      PyDict(<< Entry("output", PyStr(GoodText)) >>),
      DataBody(None),
      DataBody(PyNum("42")),
      DataBody(PyDict(<< Entry("error", PyStr("model is loading")) >>)),
      ResponseBody(PyNum("42")),
      ResponseBody(None),
      PyList(<< PyStr("data") >>),
      PyNum("42"),
      PyStr("no data here"),
      None }

Failures ==
    { HttpTimeout, HttpConnect, HttpError, HttpStatus(500), HttpStatus(404), HttpUnparseable }

\* What the backend can do to a request of app.py, and of main.py.
AppHttps ==
    Failures
    \cup { HttpJson(b) : b \in OddBodies }
    \cup { HttpJson(DataBody(PyStr(x))) : x \in BackendTexts }

MainHttps ==
    Failures
    \cup { HttpJson(b) : b \in OddBodies }
    \cup { HttpJson(DataBody(PyStr(GoodText))) }
    \cup { HttpJson(ResponseBody(PyStr(x))) : x \in BackendTexts }

PlainText == "I like football"

Utterances ==
    { PlainText, "hello", "Bye for now", "can you help me?", "I study grammar every day",
      "why not", "really?", "this", "" }

\* The inputs a specification draws from, and its bounds.
Long ==
    [users |-> {"u1"},
     app_texts |-> {PlainText},
     main_texts |-> {PlainText},
     app_https |-> {HttpStatus(500)},
     main_https |-> {HttpStatus(500), HttpJson(ResponseBody(PyStr(GoodText)))},
     draws |-> {0},
     level_args |-> { << "advanced" >> },
     callbacks |-> {"mode_grammar"},
     max_now |-> MaxNow,
     max_log |-> MaxLog]

Session ==
    [users |-> Ids,
     app_texts |-> {PlainText, "hello, any good movie or song?"},
     main_texts |-> {PlainText},
     app_https |-> {HttpStatus(500)},
     main_https |-> {HttpJson(ResponseBody(PyStr(GoodText)))},
     draws |-> {0},
     level_args |-> { << >>, << "Advanced" >>, << "expert" >> },
     callbacks |-> {"mode_grammar", "mode_conversation", "mode_mixed", "noop"},
     max_now |-> MaxNowSession,
     max_log |-> MaxLogSession]

Resolver ==
    [users |-> {"u1"},
     app_texts |-> Utterances,
     main_texts |-> Utterances,
     app_https |-> AppHttps,
     main_https |-> MainHttps,
     draws |-> 0..(MaxDraws - 1),
     level_args |-> { << "advanced" >> },
     callbacks |-> {"mode_grammar", "mode_conversation", "mode_mixed"},
     max_now |-> MaxNowResolver,
     max_log |-> MaxLogResolver]

\* The deployment has its backend configured.
InitConfigured == Init /\ HF_SPACE_URL = SpaceUrl

\* The steps of a handler in progress.
Steps(P) ==
    \/ \E t \in Tasks : hm_append_user(t)
    \/ \E t \in Tasks : hm_truncate(t)
    \/ \E t \in Tasks, http \in P.app_https : hm_generate(t, http, P.draws)
    \/ \E t \in Tasks : hm_append_assistant(t)
    \/ \E t \in Tasks : hm_send(t)
    \/ \E t \in Tasks : generate_build(t)
    \/ \E t \in Tasks, http \in P.main_https : generate_resume(t, http, P.draws)
    \/ \E t \in Tasks : generate_add_assistant(t)
    \/ \E t \in Tasks : chat_reply(t)

\* Long conversations of one user, with plain inputs.
Next ==
    \/ Steps(Long)
    \/ \E u \in Long.users, m \in Long.app_texts : handle_message(u, m, Long.max_now)
    \/ \E u \in Long.users : clear_command(u, Long.max_now)
    \/ \E c \in Long.users, m \in Long.main_texts : chat(c, m, Long.max_log)
    \/ \E c \in Long.users : clear_history(c)
Spec == InitConfigured /\ [][Next]_vars

\* Short sessions of two users, with every command.
NextSession ==
    \/ Steps(Session)
    \/ \E u \in Session.users, m \in Session.app_texts : handle_message(u, m, Session.max_now)
    \/ \E u \in Session.users : start_command(u, Session.max_now)
    \/ \E u \in Session.users : app_help_command(u)
    \/ \E u \in Session.users : clear_command(u, Session.max_now)
    \/ \E u \in Session.users, args \in Session.level_args :
          level_command(u, args, Session.max_now)
    \/ \E c \in Session.users, m \in Session.main_texts : chat(c, m, Session.max_log)
    \/ \E c \in Session.users : start(c)
    \/ \E c \in Session.users : main_help_command(c)
    \/ \E c \in Session.users : mode(c)
    \/ \E c \in Session.users, data \in Session.callbacks : button_handler(c, data)
    \/ \E c \in Session.users : clear_history(c)
SpecSession == InitConfigured /\ [][NextSession]_vars

\* One exchange, with every utterance and backend behaviour.
NextResolver ==
    \/ Steps(Resolver)
    \/ \E u \in Resolver.users, m \in Resolver.app_texts :
          handle_message(u, m, Resolver.max_now)
    \/ \E c \in Resolver.users, m \in Resolver.main_texts : chat(c, m, Resolver.max_log)
    \/ \E c \in Resolver.users, data \in Resolver.callbacks : button_handler(c, data)
SpecResolver == Init /\ [][NextResolver]_vars

\* Two messages, with backends that fail, send a payload that is no text,
\* or answer.  A handler that has started runs on: the backend calls have
\* timeouts (src/app.py:112-117, src/main.py:109).
Replies ==
    [users |-> {"u1"},
     app_texts |-> {PlainText},
     main_texts |-> {PlainText},
     app_https |-> {HttpStatus(500), HttpTimeout, HttpJson(DataBody(PyNum("42"))),
                    HttpJson(DataBody(PyStr(GoodText)))},
     main_https |-> {HttpStatus(500), HttpTimeout, HttpJson(ResponseBody(PyNum("42"))),
                     HttpJson(ResponseBody(PyStr(GoodText)))},
     draws |-> {0},
     level_args |-> { << "advanced" >> },
     callbacks |-> {"mode_grammar"},
     max_now |-> MaxNowReplies,
     max_log |-> MaxLogReplies]

NextReplies ==
    \/ Steps(Replies)
    \/ \E u \in Replies.users, m \in Replies.app_texts :
          handle_message(u, m, Replies.max_now)
    \/ \E c \in Replies.users, m \in Replies.main_texts : chat(c, m, Replies.max_log)
    \/ \E c \in Replies.users : clear_history(c)

\* The handlers' steps once more, the backend's timeout named first: a
\* started handler has a step to take whatever the backend does, and the
\* backend's timeout is one of Replies' behaviours, so this is Steps(Replies).
RepliesSteps ==
    \/ \E t \in Tasks : hm_generate(t, HttpTimeout, Replies.draws)
    \/ \E t \in Tasks : generate_resume(t, HttpTimeout, Replies.draws)
    \/ Steps(Replies)

\* The event loop runs a started handler on (src/app.py:410, src/main.py:487).
SpecReplies == Init /\ [][NextReplies]_vars /\ WF_vars(RepliesSteps)

\* Messages of one user to app.py that arrive together once the history
\* has 20 turns.
Together ==
    [users |-> {"u1"},
     app_texts |-> {PlainText},
     app_https |-> {HttpStatus(500)},
     draws |-> {0},
     together_from |-> 20,
     max_now |-> MaxNowTogether]

NextTogether ==
    \/ \E u \in Together.users, m \in Together.app_texts : webhook(u, m, Together)
    \/ \E t \in Tasks : hm_load_history(t)
    \/ \E t \in Tasks : hm_append_loaded(t)
    \/ \E t \in Tasks : hm_truncate(t)
    \/ \E t \in Tasks, http \in Together.app_https : hm_generate(t, http, Together.draws)
    \/ \E t \in Tasks : hm_append_assistant(t)
    \/ \E t \in Tasks : hm_send(t)
InitTogether == InitConfigured /\ program = "app"
SpecTogether == InitTogether /\ [][NextTogether]_vars

\* Messages of one chat to main.py whose generate_phi3_reply calls are
\* suspended at the await of line 289 together: what the coroutine allows
\* when its callers run side by side.  The messages come one after another
\* until the history has Await.together_from turns; the backend is down, so
\* each reply is of the pool of its utterance.
Await ==
    [users |-> {"u1"},
     main_texts |-> {"hello", "Bye for now"},
     main_https |-> {HttpStatus(500)},
     draws |-> {0},
     together_from |-> 6,
     max_log |-> MaxLogAwait]

\* chat started while the chat's earlier generate_phi3_reply calls are
\* suspended.
chat_together(c, m, P) ==
    /\ AllIdle \/ Len(main_user_conversations[c]) >= P.together_from
    /\ chat_in(c, m, P.max_log)

NextAwait ==
    \/ \E c \in Await.users, m \in Await.main_texts : chat_together(c, m, Await)
    \/ \E t \in Tasks : generate_build(t)
    \/ \E t \in Tasks, http \in Await.main_https : generate_complete(t, http, Await.draws)
    \/ \E t \in Tasks : chat_reply(t)
InitAwait == InitConfigured /\ program = "main"
SpecAwait == InitAwait /\ [][NextAwait]_vars

\* Two identifiers whose operations interleave: a handler of one runs
\* while a handler of the other is between two of its steps (the threads
\* of app.run, the coroutines of main.py).  The operations of one
\* identifier come one after another.
Apart ==
    [users |-> Ids,
     app_texts |-> {"hello, any good movie or song?"},
     main_texts |-> {PlainText},
     app_https |-> {HttpStatus(500)},
     main_https |-> {HttpStatus(500)},
     draws |-> {0},
     level_args |-> { << "Advanced" >>, << "expert" >> },
     callbacks |-> {"mode_grammar"},
     max_now |-> MaxNowApart,
     max_log |-> MaxLogApart]

\* No handler of id is in progress.
Quiet(id) == \A t \in Tasks : tasks[t].pc = "idle" \/ tasks[t].id # id

NextApart ==
    \/ \E u \in Apart.users, m \in Apart.app_texts :
          Quiet(u) /\ handle_message_in(u, m, Apart.max_now)
    \/ \E t \in Tasks : hm_append_user(t)
    \/ \E t \in Tasks : hm_truncate(t)
    \/ \E t \in Tasks, http \in Apart.app_https : hm_generate(t, http, Apart.draws)
    \/ \E t \in Tasks : hm_append_assistant(t)
    \/ \E t \in Tasks : hm_send(t)
    \/ \E u \in Apart.users : Quiet(u) /\ clear_command_in(u, Apart.max_now)
    \/ \E u \in Apart.users, args \in Apart.level_args :
          Quiet(u) /\ level_command_in(u, args, Apart.max_now)
    \/ \E c \in Apart.users, m \in Apart.main_texts :
          Quiet(c) /\ chat_in(c, m, Apart.max_log)
    \/ \E t \in Tasks : generate_build(t)
    \/ \E t \in Tasks, http \in Apart.main_https : generate_complete(t, http, Apart.draws)
    \/ \E t \in Tasks : chat_reply(t)
    \/ \E c \in Apart.users, data \in Apart.callbacks :
          Quiet(c) /\ button_handler_in(c, data)
    \/ \E c \in Apart.users : Quiet(c) /\ clear_history_in(c)
SpecApart == InitConfigured /\ [][NextApart]_vars

(***************************************************************************)
(* The programs' functions called on their own.  call holds the last call: *)
(* the function, its arguments and what it gave.                           *)
(***************************************************************************)

Modes == {"grammar", "conversation", "mixed"}

\* Utterances with the responders' keywords alone and together.
FallbackTexts ==
    { "hello", "HELLO THERE", "hello, bye for now", "hi, can you help me with grammar?",
      "good morning! see you?", "nothing new", "Bye for now", "talk later?",
      "can you help me", "can you help me with grammar", "I study grammar every day",
      "what do you mean", "Why not?", PlainText }

\* get_contextual_fallback(message_text, user_context) of app.py, its
\* random.choice drawing r.
call_app_get_contextual_fallback(message_text, conversation_count, r) ==
    /\ program = "app"
    /\ call = NoCall
    /\ call' = [fn |-> "get_contextual_fallback", text |-> message_text, mode |-> "",
                count |-> conversation_count,
                out |-> random_choice(app_get_contextual_fallback(message_text,
                                                                  conversation_count), r)]
    /\ UNCHANGED << program, HF_SPACE_URL, appVars, mainVars, tasks, appended, appends, last >>

\* get_contextual_fallback(mode, user_input) of main.py, its random.choice
\* drawing r.
call_main_get_contextual_fallback(mode_, user_input, r) ==
    /\ program = "main"
    /\ call = NoCall
    /\ call' = [fn |-> "get_contextual_fallback", text |-> user_input, mode |-> mode_,
                count |-> 0,
                out |-> random_choice(main_get_contextual_fallback(mode_, user_input), r)]
    /\ UNCHANGED << program, HF_SPACE_URL, appVars, mainVars, tasks, appended, appends, last >>

\* An (endpoint, payload shape) pair a client may post to.
Candidate(endpoint, shape) == [endpoint |-> endpoint, shape |-> shape]

\* The endpoint and payload of app.py and of main.py, and one more payload
\* shape for the first.
Candidates ==
    { Candidate("/api/predict", "data"), Candidate("/api/generate", "data"),
      Candidate("/api/predict", "inputs") }

\* What a backend answers to a candidate: a failure, or 200 with the text
\* in one of the places a backend may put it.
BackendAnswers ==
    { HttpStatus(404), HttpTimeout,
      HttpJson(DataBody(PyStr(GoodText))),
      HttpJson(ResponseBody(PyStr(GoodText))),
      HttpJson(PyDict(<< Entry("data", PyList(<< >>)) >>)),
      HttpJson(PyDict(<< Entry("output", PyStr(GoodText)) >>)),
      HttpJson(PyDict(<< Entry("generated_text", PyStr(GoodText)) >>)),
      HttpJson(PyDict(<< Entry("response", PyStr(GoodText)) >>)),
      HttpJson(PyStr(GoodText)) }

\* call_hf_space_api of app.py posting to /api/predict and, on a failure,
\* to /api/generate.
app_client_retrying(url, backend) ==
    IF url = "" THEN [requests |-> << >>, result |-> Return(None)]
    ELSE LET first == Candidate("/api/predict", "data")
             second == Candidate("/api/generate", "data")
             r == app_call_hf_space_api(url, backend[first])
         IN IF r.val # None THEN [requests |-> << first >>, result |-> r]
            ELSE [requests |-> << first, second >>,
                  result |-> app_call_hf_space_api(url, backend[second])]

\* call_hf_space_api of app.py against a backend answering each candidate
\* in its way: the requests posted (lines 91, 96-102, 112-117) and the
\* value returned.
app_client(url, backend) ==
    IF url = "" THEN [requests |-> << >>, result |-> Return(None)]
    ELSE LET posted == Candidate("/api/predict", "data") IN
         [requests |-> << posted >>,
          result |-> app_call_hf_space_api(url, backend[posted])]

\* call_hf_space_api of main.py (lines 102-112).
main_client(url, backend) ==
    LET posted == Candidate("/api/generate", "data") IN
    [requests |-> << posted >>,
     result |-> main_call_hf_space_api(url, backend[posted])]

\* call_hf_space_api(prompt)
call_hf_space_api(backend) ==
    /\ call = NoCall
    /\ LET c == IF program = "app" THEN app_client(HF_SPACE_URL, backend)
                ELSE main_client(HF_SPACE_URL, backend)
       IN call' = [fn |-> "call_hf_space_api", backend |-> backend,
                   requests |-> c.requests, out |-> c.result]
    /\ UNCHANGED << program, HF_SPACE_URL, appVars, mainVars, tasks, appended, appends, last >>

\* Backend texts with whole, nested and partial delimiter tokens, leading
\* punctuation, excess whitespace, a conversation boundary and more than 50
\* words.
CleanTexts ==
    { GoodText,
      "<|assistant|>  Sure,   that is\tfine <|end|>",
      "<|a<|b|>|>",
      "<<|x|>|end|>Fine",
      "<|en<|end|>d|>Hello",
      "..!? Well, thanks",
      "Yes, I agree\nUser: and then?",
      "I see <|",
      "one two three four five six seven eight nine ten one two three four five six seven eight nine ten one two three four five six seven eight nine ten one two three four five six seven eight nine ten one two three four five six seven eight nine ten more" }

\* clean_phi3_response(response), and the same applied to what it returned.
call_clean_phi3_response(response) ==
    /\ program = "main"
    /\ call = NoCall
    /\ \E cleaned \in {clean_phi3_response(response)} :
          call' = [fn |-> "clean_phi3_response", text |-> response, out |-> cleaned,
                   again |-> clean_phi3_response(cleaned)]
    /\ UNCHANGED << program, HF_SPACE_URL, appVars, mainVars, tasks, appended, appends, last >>

\* A stored conversation of three exchanges; the histories built from are
\* its beginnings of 0 to 3 exchanges (add_to_conversation stores whole
\* exchanges and at most MAX_HISTORY of them).
PromptTurns ==
    << MainTurn("user", "My name is Ana"), MainTurn("assistant", "Nice to meet you, Ana!"),
       MainTurn("user", PlainText), MainTurn("assistant", "Which team do you like?"),
       MainTurn("user", "hello"), MainTurn("assistant", "Hello! * How are you today?") >>
PromptHistories == { SubSeq(PromptTurns, 1, 2 * e) : e \in 0..MAX_HISTORY }

\* build_phi3_prompt(user_input, mode, chat_id), the chat's stored history
\* being history.
call_build_phi3_prompt(user_input, mode_, history) ==
    /\ program = "main"
    /\ call = NoCall
    /\ call' = [fn |-> "build_phi3_prompt", text |-> user_input, mode |-> mode_,
                history |-> history,
                out |-> build_phi3_prompt(user_input, mode_, history)]
    /\ UNCHANGED << program, HF_SPACE_URL, appVars, mainVars, tasks, appended, appends, last >>

\* Responses made of n words of which d are distinct: d different words and
\* then the first of them again, in capitals when caps, up to n words.
GateWords ==
    << "one", "two", "three", "four", "five", "six", "seven", "eight", "nine", "ten",
       "eleven", "twelve" >>

GateText(n, d, caps) ==
    join(" ", [i \in 1..n |-> IF i <= d THEN GateWords[i]
                              ELSE IF caps THEN "ONE" ELSE "one"])

\* is_valid_phi3_response(response, user_input, mode) for such a response.
call_is_valid_phi3_response(n, d, caps, user_input, mode_) ==
    /\ program = "main"
    /\ call = NoCall
    /\ call' = [fn |-> "is_valid_phi3_response", words |-> n, distinct |-> d,
                response |-> GateText(n, d, caps),
                out |-> is_valid_phi3_response(GateText(n, d, caps), user_input, mode_)]
    /\ UNCHANGED << program, HF_SPACE_URL, appVars, mainVars, tasks, appended, appends, last >>

NextCalls ==
    \/ \E n \in 1..MaxWords, caps \in BOOLEAN, m \in Modes :
          \E d \in { k \in 1..n : k <= Len(GateWords) } :
             call_is_valid_phi3_response(n, d, caps, PlainText, m)
    \/ \E text \in {PlainText, "hello"}, m \in Modes, history \in PromptHistories :
          call_build_phi3_prompt(text, m, history)
    \/ \E response \in CleanTexts : call_clean_phi3_response(response)
    \/ \E backend \in [Candidates -> BackendAnswers] : call_hf_space_api(backend)
    \/ \E text \in FallbackTexts, n \in {0, 11}, r \in 0..(MaxChoice - 1) :
          call_app_get_contextual_fallback(text, n, r)
    \/ \E text \in FallbackTexts, m \in Modes, r \in 0..(MaxChoice - 1) :
          call_main_get_contextual_fallback(m, text, r)
SpecCalls == Init /\ [][NextCalls]_vars

(***************************************************************************)
(* Properties of the resolver.                                             *)
(***************************************************************************)

\* The strings of the fallback pools of app.py, and of main.py.
AppPools ==
    SeqToSet(app_greetings) \cup SeqToSet(help_responses) \cup SeqToSet(grammar_responses)
    \cup SeqToSet(question_responses) \cup SeqToSet(advanced_responses)
    \cup SeqToSet(general_responses)

MainPools ==
    SeqToSet(main_greetings) \cup SeqToSet(main_goodbyes) \cup SeqToSet(fallbacks_grammar)
    \cup SeqToSet(fallbacks_conversation_question)
    \cup SeqToSet(fallbacks_conversation_statement) \cup SeqToSet(fallbacks_mixed)

Pools == IF program = "app" THEN AppPools ELSE MainPools

\* generate_phi3_reply has come back to the handler running as task t.
ResolverReturned(t) ==
    tasks[t].pc \in {"hm_append_assistant", "hm_send", "gen_add_assistant", "chat_reply"}

\* What call_hf_space_api gave the resolver of task t.
CallResult(t) ==
    IF program = "app" THEN app_call_hf_space_api(HF_SPACE_URL, tasks[t].http)
    ELSE main_call_hf_space_api(HF_SPACE_URL, tasks[t].http)

\* C1: whatever the utterance, the conversation's mode and the backend's
\* behaviour, generate_phi3_reply (app.py and main.py) comes back without an
\* exception and with a non-empty string.
C1_AlwaysReturns ==
    \A t \in Tasks :
        ResolverReturned(t) => tasks[t].exc = "none" /\ Len(tasks[t].reply) > 0

\* The resolver of app.py has answered the empty utterance after the backend
\* sent a number where the text should be.
C1_Witness ==
    \E t \in Tasks :
        /\ tasks[t].pc = "hm_append_assistant"
        /\ tasks[t].text = ""
        /\ tasks[t].http = HttpJson(DataBody(PyNum("42")))
        /\ Len(tasks[t].reply) > 0

\* C2: every reply the resolver returns is a string of a fallback pool, or
\* a backend text that passes the acceptability checks after cleaning.
C2_RepliesAcceptable ==
    \A t \in Tasks :
        ResolverReturned(t) /\ tasks[t].exc = "none" =>
            \/ tasks[t].reply \in Pools
            \/ /\ CallResult(t).val.t = "str"
               /\ is_valid_phi3_response(clean_phi3_response(CallResult(t).val.s),
                                         tasks[t].text, tasks[t].mode)

\* The body is a dict whose 'data' has a first element: what line 130 of
\* app.py and line 117 of main.py test for.
HasFirstDataElement(body) ==
    /\ body.t = "dict"
    /\ HasKey(body, "data")
    /\ LET d == GetKey(body, "data") IN
       \/ d.t = "list" /\ Len(d.items) > 0
       \/ d.t = "str" /\ d.s # ""

\* The body has the shape the client of the running program reads a reply from.
ExpectedBody(body) ==
    /\ HasFirstDataElement(body)
    /\ program = "main" =>
          LET e == First(GetKey(body, "data")).val IN e.t = "dict" /\ HasKey(e, "response")

\* The backend call of task t failed: no URL, no response, a status other
\* than 200, a body that does not parse, or a body of an unexpected shape.
BackendFailed(t) ==
    \/ HF_SPACE_URL = ""
    \/ tasks[t].http.kind # "response"
    \/ tasks[t].http.status # 200
    \/ ~tasks[t].http.parses
    \/ ~ExpectedBody(tasks[t].http.body)

\* C3: when the backend call fails (no URL, non-200 status, timeout,
\* connection error, unparseable or unexpected body), call_hf_space_api
\* returns None without raising and the resolver returns a string of a
\* fallback pool.
C3_FailureGivesFallback ==
    \A t \in Tasks :
        ResolverReturned(t) /\ BackendFailed(t) =>
            /\ CallResult(t) = Return(None)
            /\ tasks[t].exc = "none"
            /\ tasks[t].reply \in Pools

\* The resolver of main.py has answered in grammar mode after an HTTP 500.
C3_Witness ==
    \E t \in Tasks :
        /\ tasks[t].pc = "chat_reply"
        /\ tasks[t].mode = "grammar"
        /\ tasks[t].http = HttpStatus(500)
        /\ tasks[t].reply \in SeqToSet(fallbacks_grammar)

(***************************************************************************)
(* Properties of the conversation state.                                   *)
(***************************************************************************)

\* The stored history of an identifier in the running program.
History(id) == IF program = "app" THEN app_history(id) ELSE main_user_conversations[id]

\* The k most recent elements of q, for k <= Len(q).
MostRecent(q, k) == SubSeq(q, Len(q) - k + 1, Len(q))

IsSuffix(h, q) == Len(h) <= Len(q) /\ h = MostRecent(q, Len(h))

Min(a, b) == IF a <= b THEN a ELSE b

\* C4: in app.py the history of a user is never longer than 20 once
\* handle_message has finished, the assistant turn included.
C4_AppHistoryWithinCap ==
    AllIdle => \A u \in Ids : Len(app_history(u)) <= 20

\* C5: in main.py a chat's history is never longer than MAX_HISTORY * 2 = 6
\* once add_to_conversation has returned.
C5_MainHistoryWithinCap ==
    \A c \in Ids : Len(main_user_conversations[c]) <= MAX_HISTORY * 2

\* Eight turns were appended to a chat of main.py, and six are stored.
C5_Witness ==
    /\ program = "main"
    /\ \E c \in Ids : Len(appended[c]) = 8 /\ Len(main_user_conversations[c]) = 6

\* C6 as stated: after n appends since the last clear, the history is the
\* most recent min(n, cap) appended turns, cap being 20 in app.py and 6 in
\* main.py.
C6_MostRecentMinCap ==
    \A id \in Ids :
        LET n == Len(appended[id])
            cap == IF program = "app" THEN 20 ELSE MAX_HISTORY * 2
        IN History(id) = MostRecent(appended[id], Min(n, cap))

\* The number of turns main.py keeps of n appended ones.
KeptMain(n) == IF n <= MAX_HISTORY * 2 THEN n ELSE IF n % 2 = 1 THEN 5 ELSE 6

\* The number of turns app.py keeps of n appended ones, once line 361 has run.
KeptApp(n) == IF n <= 20 THEN n ELSE 10 + ((n - 21) % 12)

\* handle_message has appended the user turn of id and not yet reached line 360.
BeforeCut(id) == \E t \in Tasks : tasks[t].pc = "hm_truncate" /\ tasks[t].id = id

\* C6, amended: after n appends since the last clear, the history is the
\* most recent k appended turns in their order; k = n up to the cap; beyond
\* it main.py keeps 5 turns for odd n and 6 for even n, and app.py, which
\* cuts to 10 turns when a user turn makes the length exceed 20, keeps
\* 10 + ((n - 21) mod 12) turns.
C6_MostRecentKept ==
    \A id \in Ids :
        LET n == Len(appended[id])
            k == IF program = "main" THEN KeptMain(n)
                 ELSE IF BeforeCut(id) THEN KeptApp(n - 1) + 1
                 ELSE KeptApp(n)
        IN History(id) = MostRecent(appended[id], k)

\* app.py has cut the history of a user for the second time.
C6_Witness ==
    /\ program = "app"
    /\ \E u \in Ids : Len(appended[u]) = 33 /\ Len(app_history(u)) = 10 /\ ~BeforeCut(u)

\* C7: a conversation's history is a contiguous suffix of the turns appended
\* to it since its last clear, in their order.
C7_HistoryIsSuffix ==
    \A id \in Ids : IsSuffix(History(id), appended[id])

\* main.py has dropped the four oldest of nine appended turns.
C7_Witness ==
    /\ program = "main"
    /\ \E c \in Ids :
          /\ Len(appended[c]) = 9
          /\ main_user_conversations[c] = SubSeq(appended[c], 5, 9)
          /\ appended[c][2] # appended[c][6]

NoDuplicates(q) == \A i, j \in 1..Len(q) : q[i] = q[j] => i = j

\* C8: a clear request (clear_command in app.py, clear_history in main.py)
\* leaves the identifier's history empty and its turn count 0, and its level
\* and mode as they were.
C8_ClearKeepsModeAndLevel ==
    [][\A id \in Ids :
          /\ clear_command(id, Session.max_now) =>
                /\ app_history(id)' = << >>
                /\ app_count(id)' = 0
                /\ app_level(id)' = app_level(id)
          /\ clear_history(id) =>
                /\ main_user_conversations'[id] = << >>
                /\ main_mode(id)' = main_mode(id)]_vars

\* A user of level advanced with a history has cleared it.
C8_Witness ==
    /\ AllIdle
    /\ last.op = "clear_command"
    /\ last.had > 0
    /\ app_history(last.id) = << >>
    /\ app_count(last.id) = 0
    /\ app_level(last.id) = "advanced"

\* C9 as stated: after clear_command the user's interests are empty.
C9_ClearEmptiesInterests ==
    AllIdle /\ last.op = "clear_command" => app_interests(last.id) = << >>

\* C9, amended: clear_command leaves the user's interests as they were.
C9_ClearKeepsInterests ==
    [][\A u \in Ids :
          clear_command(u, Session.max_now) => app_interests(u)' = app_interests(u)]_vars

\* A user with a detected interest has cleared the conversation and has
\* the interest still.
C9_Witness ==
    /\ AllIdle
    /\ last.op = "clear_command"
    /\ app_count(last.id) = 0
    /\ app_interests(last.id) = << "sports" >>

\* C10: in app.py every tag of a user's interests stays in them in every
\* later state, through messages, level changes and clears, and no tag
\* appears twice.
C10_InterestsOnlyGrow ==
    [][\A u \in Ids :
          /\ SeqToSet(app_interests(u)) \subseteq SeqToSet(app_interests(u)')
          /\ NoDuplicates(app_interests(u)')]_vars

\* A user got one interest from a first message, cleared, and got two more
\* from the next message.
C10_Witness ==
    /\ AllIdle
    /\ last.op = "handle_message"
    /\ app_count(last.id) = 1
    /\ app_interests(last.id) = << "sports", "movies", "music" >>

(***************************************************************************)
(* Properties of the message handlers.                                     *)
(***************************************************************************)

\* The number of text messages among the messages sent.
TextsSent(sent) == Cardinality({ i \in 1..Len(sent) : sent[i].kind = "text" })

\* What chat sends to a chat whose mode it does not know (lines 443-449).
Welcome == << Sent("text", "welcome"), Sent("text", "choose mode") >>

\* C11 as stated: the handler of a text message sends exactly one text
\* message, the first message of a chat with no mode included.
C11_ExactlyOneText ==
    last.op \in {"handle_message", "chat"} => TextsSent(last.sent) = 1

\* C11, amended: a text message of a chat whose mode main.py does not know
\* is answered by the welcome and the mode selection and no reply; every
\* other text message starts a handler, which eventually ends having sent
\* exactly one text message, the reply, also when the backend fails or
\* reply generation raises.
C11_OneReplyOrWelcome ==
    /\ [](last.op \in {"handle_message", "chat"} =>
             \/ program = "main" /\ last.sent = Welcome /\ last.reply = ""
             \/ TextsSent(last.sent) = 1 /\ Sent("text", last.reply) \in SeqToSet(last.sent))
    /\ [][\A c \in Ids, m \in Replies.main_texts :
             chat(c, m, Replies.max_log) =>
                 IF c \in DOMAIN user_modes
                 THEN tasks'[FreeTask].pc # "idle"
                 ELSE last'.sent = Welcome /\ UNCHANGED tasks]_vars
    /\ [][\A u \in Ids, m \in Replies.app_texts :
             handle_message(u, m, Replies.max_now) => tasks'[FreeTask].pc # "idle"]_vars
    /\ \A t \in Tasks : (tasks[t].pc # "idle") ~> (tasks[t].pc = "idle")

\* main.py has sent a reply for a message whose reply generation raised: one
\* text, and nothing recorded.
C11_Witness ==
    /\ program = "main"
    /\ last.op = "chat"
    /\ TextsSent(last.sent) = 1
    /\ last.reply \in MainPools
    /\ appends = 0

(***************************************************************************)
(* Properties of the recorded exchange.                                    *)
(***************************************************************************)

\* C12: when the resolver has returned reply r for utterance u (the handler
\* is about to send r), the conversation's history ends with the two
\* entries (user, u), (assistant, r), on every path through the resolver,
\* the path of a failed backend and the path of a caught exception included.
C12_ExchangeRecorded ==
    \A t \in Tasks :
        tasks[t].pc \in {"hm_send", "chat_reply"} /\ tasks[t].exc = "none" =>
            LET h == History(tasks[t].id)
                n == Len(h)
            IN /\ n >= 2
               /\ h[n - 1].role = "user" /\ h[n - 1].content = tasks[t].text
               /\ h[n].role = "assistant" /\ h[n].content = tasks[t].reply

(***************************************************************************)
(* Properties of the fallback responder.                                   *)
(***************************************************************************)

FallbackCalled == call.fn = "get_contextual_fallback"

\* The first pool of rules, a sequence of << condition, pool >>, whose
\* condition holds.
FirstMatch(rules) ==
    rules[CHOOSE i \in 1..Len(rules) :
              rules[i][1] /\ \A j \in 1..(i - 1) : ~rules[j][1]][2]

HasWord(text, words) == \E w \in SeqToSet(words) : Contains(lower(text), w)
StartsWithWord(text, words) == \E w \in SeqToSet(words) : startswith(lower(text), w)

\* The categories in the order the specification states, each with every pool the
\* two programs hold for it.
StatedOrder(text, count) ==
    FirstMatch(<<
        << HasWord(text, greeting_words), SeqToSet(app_greetings) \cup SeqToSet(main_greetings) >>,
        << HasWord(text, bye_words), SeqToSet(main_goodbyes) >>,
        << HasWord(text, << "help", "assist", "support" >>), SeqToSet(help_responses) >>,
        << HasWord(text, << "grammar", "learn", "study", "practice" >>),
           SeqToSet(grammar_responses) \cup SeqToSet(fallbacks_grammar) >>,
        << Contains(text, "?") \/ StartsWithWord(text, question_words),
           SeqToSet(question_responses) \cup SeqToSet(fallbacks_conversation_question) >>,
        << count > 10, SeqToSet(advanced_responses) >>,
        << TRUE, SeqToSet(general_responses) \cup SeqToSet(fallbacks_conversation_statement)
                    \cup SeqToSet(fallbacks_mixed) >> >>)

\* C13 as stated: the responder answers from the pool of the first matching
\* category in the order greeting, farewell, help, grammar, question ('?' or
\* a leading interrogative word), more than 10 turns, generic.
C13_StatedOrder ==
    FallbackCalled => call.out \in StatedOrder(call.text, call.count)

\* The order of app.py.
AppOrder(text, count) ==
    FirstMatch(<<
        << HasWord(text, greeting_words), SeqToSet(app_greetings) >>,
        << HasWord(text, << "help", "assist", "support" >>), SeqToSet(help_responses) >>,
        << HasWord(text, << "grammar", "learn", "study", "practice" >>),
           SeqToSet(grammar_responses) >>,
        << Contains(text, "?"), SeqToSet(question_responses) >>,
        << count > 10, SeqToSet(advanced_responses) >>,
        << TRUE, SeqToSet(general_responses) >> >>)

\* The order of main.py.
MainOrder(text, mode_) ==
    FirstMatch(<<
        << HasWord(text, greeting_words), SeqToSet(main_greetings) >>,
        << HasWord(text, bye_words), SeqToSet(main_goodbyes) >>,
        << mode_ = "grammar", SeqToSet(fallbacks_grammar) >>,
        << mode_ = "conversation"
               /\ (endswith(strip(text), "?") \/ StartsWithWord(text, question_words)),
           SeqToSet(fallbacks_conversation_question) >>,
        << mode_ = "conversation", SeqToSet(fallbacks_conversation_statement) >>,
        << TRUE, SeqToSet(fallbacks_mixed) >> >>)

\* C13, amended: the responder returns one string of the pool of the first
\* matching category; in app.py the order is greeting, help, grammar,
\* contains '?', more than 10 turns, generic; in main.py it is greeting,
\* farewell, then the mode's pool (grammar; conversation: question or
\* statement; mixed).
C13_CodeOrder ==
    FallbackCalled =>
        call.out \in (IF program = "app" THEN AppOrder(call.text, call.count)
                      ELSE MainOrder(call.text, call.mode))

\* app.py was asked for help with grammar and answered from the help pool.
C13_Witness ==
    /\ FallbackCalled
    /\ program = "app"
    /\ call.text = "can you help me with grammar"
    /\ call.out \in SeqToSet(help_responses)

\* C14: for an utterance that contains a greeting keyword the fallback reply
\* is a member of the greeting pool, whatever the mode, the turn count and
\* the other keywords in the utterance.
C14_GreetingFirst ==
    FallbackCalled /\ HasWord(call.text, greeting_words) =>
        call.out \in SeqToSet(IF program = "app" THEN app_greetings ELSE main_greetings)

\* main.py was greeted and bidden farewell in one utterance.
C14_Witness ==
    /\ FallbackCalled
    /\ program = "main"
    /\ call.text = "hello, bye for now"
    /\ call.mode = "conversation"
    /\ call.out \in SeqToSet(main_greetings)

(***************************************************************************)
(* Properties of the mode.                                                 *)
(***************************************************************************)

\* C15 as stated: setting a conversation's mode changes that conversation's
\* mode and no other stored state: once button_handler is through, the
\* conversation's history is as long as it was before.
C15_ModeOnly ==
    AllIdle /\ last.op = "button_handler" =>
        Len(main_user_conversations[last.id]) = last.had

\* The modes of the buttons.
ButtonMode(callback_data) ==
    CASE callback_data = "mode_mixed" -> "mixed"
      [] callback_data = "mode_conversation" -> "conversation"
      [] callback_data = "mode_grammar" -> "grammar"
      [] OTHER -> ""

\* C15, amended: a mode button sets that conversation's mode and empties
\* that conversation's history; the modes and histories of the other
\* conversations, and levels and interests, stay as they were; any other
\* callback data changes no stored state.
C15_ModeAndHistory ==
    [][\A c \in Ids, data \in Session.callbacks :
          button_handler(c, data) =>
              /\ \A d \in Ids \ {c} :
                    /\ main_user_conversations'[d] = main_user_conversations[d]
                    /\ (d \in DOMAIN user_modes' <=> d \in DOMAIN user_modes)
                    /\ d \in DOMAIN user_modes => user_modes'[d] = user_modes[d]
              /\ UNCHANGED << app_user_conversations, user_contexts >>
              /\ IF ButtonMode(data) # ""
                 THEN /\ c \in DOMAIN user_modes' /\ user_modes'[c] = ButtonMode(data)
                      /\ main_user_conversations'[c] = << >>
                 ELSE UNCHANGED << user_modes, main_user_conversations >>]_vars

\* A mode button was pressed in a chat with recorded turns, another chat
\* having turns of its own.
C15_Witness ==
    /\ AllIdle
    /\ last.op = "button_handler"
    /\ last.had > 0
    /\ main_user_conversations[last.id] = << >>
    /\ \E d \in Ids \ {last.id} : Len(main_user_conversations[d]) > 0

(***************************************************************************)
(* Properties of the backend client.                                       *)
(***************************************************************************)

ClientCalled == call.fn = "call_hf_space_api"

\* The candidate the program posts to, and the answer its extraction reads.
OwnCandidate ==
    IF program = "app" THEN Candidate("/api/predict", "data")
    ELSE Candidate("/api/generate", "data")
OwnAnswer ==
    IF program = "app" THEN HttpJson(DataBody(PyStr(GoodText)))
    ELSE HttpJson(ResponseBody(PyStr(GoodText)))

\* C16 as stated: the client goes from a failed candidate to the next and
\* stops at the first usable one, so a backend that answers usably to any
\* candidate gives a backend reply, and no request follows a usable one.
C16_TriesNextCandidate ==
    ClientCalled /\ HF_SPACE_URL # "" =>
        /\ (\E c \in Candidates : call.backend[c] = OwnAnswer) =>
               call.out = Return(PyStr(GoodText))
        /\ \A i \in 1..(Len(call.requests) - 1) : call.backend[call.requests[i]] # OwnAnswer

\* C16, amended: the client posts one request, to its program's one
\* endpoint with the one payload shape, and none without a backend URL; it
\* returns the text when that request is answered usably and None when that
\* request fails, whatever the backend would answer to other candidates.
C16_OneAttempt ==
    ClientCalled =>
        /\ call.requests = IF HF_SPACE_URL = "" THEN << >> ELSE << OwnCandidate >>
        /\ HF_SPACE_URL = "" => call.out = Return(None)
        /\ HF_SPACE_URL # "" /\ call.backend[OwnCandidate] = OwnAnswer =>
               call.out = Return(PyStr(GoodText))
        /\ call.backend[OwnCandidate] \in {HttpStatus(404), HttpTimeout} =>
               call.out = Return(None)

\* The program's endpoint is not found while another candidate would have
\* answered, and the client has returned None.
C16_Witness ==
    /\ ClientCalled
    /\ HF_SPACE_URL # ""
    /\ call.backend[OwnCandidate] = HttpStatus(404)
    /\ \E c \in Candidates \ {OwnCandidate} : call.backend[c] = OwnAnswer
    /\ call.out = Return(None)

\* The text of a 200 body by the stated priority: the first element of a
\* 'data' array, else 'output', else 'generated_text', else 'response',
\* else the whole body; None when there is no such text.
StatedText(body) ==
    LET field(k) == IF body.t = "dict" /\ HasKey(body, k) THEN GetKey(body, k) ELSE None
        data == field("data")
    IN IF data.t = "list" /\ Len(data.items) > 0 /\ data.items[1].t = "str"
       THEN data.items[1]
       ELSE IF field("output").t = "str" THEN field("output")
       ELSE IF field("generated_text").t = "str" THEN field("generated_text")
       ELSE IF field("response").t = "str" THEN field("response")
       ELSE IF body.t = "str" THEN body
       ELSE None

\* The answer to the request the client posted.
Answered == call.backend[OwnCandidate]
Answered200 ==
    ClientCalled /\ HF_SPACE_URL # "" /\ Answered.kind = "response" /\ Answered.status = 200

\* C17 as stated: for a 200 body that carries a non-empty text in 'data',
\* 'output', 'generated_text', 'response' or as the whole body, the client
\* returns that text and not a failure.
C17_StatedPriority ==
    Answered200 /\ StatedText(Answered.body) # None =>
        call.out = Return(StatedText(Answered.body))

\* C17, amended: on a 200 response app.py returns the first element of the
\* body's 'data' array, whatever it is, and None for a body without 'data'
\* or with an empty 'data' array; main.py returns the 'response' field of
\* the first element of 'data' when that element is an object with this
\* field, and None otherwise.  The
\* 'output', 'generated_text' and top-level 'response' fields and a body
\* that is itself a text are never read.
C17_DataOnly ==
    Answered200 =>
        LET body == Answered.body
            hasData == /\ body.t = "dict" /\ HasKey(body, "data")
                       /\ Len(GetKey(body, "data").items) > 0
            first == GetKey(body, "data").items[1]
        IN IF program = "app"
           THEN call.out = IF hasData THEN Return(first) ELSE Return(None)
           ELSE call.out = IF hasData /\ first.t = "dict" /\ HasKey(first, "response")
                           THEN Return(GetKey(first, "response")) ELSE Return(None)

\* A 200 answer carried the text in 'output' and app.py returned None.
C17_Witness ==
    /\ Answered200
    /\ program = "app"
    /\ Answered.body = PyDict(<< Entry("output", PyStr(GoodText)) >>)
    /\ call.out = Return(None)

(***************************************************************************)
(* Properties of the cleaner.                                              *)
(***************************************************************************)

\* C18: cleaning is idempotent: cleaning a cleaned text gives the cleaned
\* text, for texts with delimiter tokens, nested or partial tokens, leading
\* punctuation, excess whitespace and more than 50 words.
C18_CleanIdempotent ==
    call.fn = "clean_phi3_response" => call.again = call.out

(***************************************************************************)
(* Properties of the prompt builder.                                       *)
(***************************************************************************)

\* A turn under its role marker.
Segment(turn) ==
    (IF turn.role = "user" THEN "<|user|>\n" ELSE "<|assistant|>\n")
    \o turn.content \o "<|end|>\n"

\* C20: the prompt is the system directive of the mode, then the min(4, n)
\* most recent of the n stored turns in their stored order, each under its
\* role marker, then the new utterance once as the last user segment, and
\* it ends with an open assistant marker.
C20_PromptShape ==
    call.fn = "build_phi3_prompt" =>
        LET n == Len(call.history)
            k == Min(4, n)
            head == "<|system|>\n" \o get_system_prompt(call.mode) \o "<|end|>\n"
            tail == "<|user|>\n" \o call.text \o "<|end|>\n<|assistant|>\n"
            S(i) == IF i <= k THEN Segment(call.history[n - k + i]) ELSE ""
        IN /\ startswith(call.out, head)
           /\ endswith(call.out, tail)
           /\ Len(call.out) >= Len(head) + Len(tail)
           /\ SubSeq(call.out, Len(head) + 1, Len(call.out) - Len(tail))
                 = S(1) \o S(2) \o S(3) \o S(4)

\* A prompt was built from six stored turns: the second is left out and the
\* third is in.
C20_Witness ==
    /\ call.fn = "build_phi3_prompt"
    /\ Len(call.history) = 6
    /\ ~Contains(call.out, Segment(call.history[2]))
    /\ Contains(call.out, Segment(call.history[3]))

(***************************************************************************)
(* Properties of concurrent handlers.                                      *)
(***************************************************************************)

\* The appended turns of u that the stored history does not hold.
Missing(u) ==
    { i \in 1..Len(appended[u]) : appended[u][i] \notin SeqToSet(app_history(u)) }

\* C19: when text messages of one user are handled concurrently, every
\* turn appended by either handler is in the history afterwards unless
\* oldest-first truncation removed it: once the handlers are through, a
\* turn that is missing is older than every turn that is kept.
C19_NoLostAppend ==
    AllIdle =>
        \A u \in Ids : \A i \in Missing(u) : \A j \in 1..i : j \in Missing(u)

(***************************************************************************)
(* Properties of the order of a handler's steps.                           *)
(***************************************************************************)

\* The handler running as task t has its user turn at the end of the
\* stored history.
UserTurnRecorded(t) ==
    LET h == History(tasks[t].id) IN
    /\ Len(h) > 0
    /\ h[Len(h)].role = "user"
    /\ h[Len(h)].content = tasks[t].text

\* The handler running as task t is about to build the prompt or has its
\* backend call pending.
BackendPending(t) == tasks[t].pc \in {"hm_generate", "gen_build", "gen_await"}

\* C21 as stated: the user turn is appended to the history before the
\* prompt is built and before the remote client is invoked, so it is
\* recorded while the backend call is pending.
C21_UserTurnBeforeCall ==
    \A t \in Tasks : BackendPending(t) => UserTurnRecorded(t)

\* C21 as the code has it: app.py's handle_message has the user turn
\* recorded when it calls generate_phi3_reply; main.py's generate_phi3_reply
\* builds the prompt and awaits the backend with the user turn not yet
\* recorded, and records it once the response is chosen, before the
\* assistant turn.
C21_AppBeforeMainAfter ==
    \A t \in Tasks :
        /\ tasks[t].pc = "hm_generate" => UserTurnRecorded(t)
        /\ tasks[t].pc \in {"gen_build", "gen_await"} => ~UserTurnRecorded(t)
        /\ tasks[t].pc = "gen_add_assistant" => UserTurnRecorded(t)

\* main.py awaits the backend for the second message of a chat: the
\* history holds the first exchange and not the pending user turn.
C21_Witness ==
    \E t \in Tasks :
        /\ tasks[t].pc = "gen_await"
        /\ Len(main_user_conversations[tasks[t].id]) >= 2
        /\ ~UserTurnRecorded(t)

(***************************************************************************)
(* Properties of the turn count.                                           *)
(***************************************************************************)

\* The user messages of id handled since its creation or last clear, the
\* one being handled included once its user turn is appended.
MessagesSinceClear(id) ==
    Cardinality({ i \in 1..Len(appended[id]) : appended[id][i].role = "user" })

\* The utterance is in none of the greeting, help, grammar and '?'
\* categories of app.py's get_contextual_fallback.
Uncategorised(text) ==
    /\ ~HasWord(text, greeting_words)
    /\ ~HasWord(text, << "help", "assist", "support" >>)
    /\ ~HasWord(text, << "grammar", "learn", "study", "practice" >>)
    /\ ~Contains(text, "?")

\* The handler running as task t has its reply from the fallback of app.py.
AppFellBack(t) ==
    /\ program = "app"
    /\ tasks[t].pc \in {"hm_append_assistant", "hm_send"}
    /\ tasks[t].exc = "none"
    /\ BackendFailed(t)

\* C22: in app.py the fallback for an utterance of no category is from
\* the encouragement pool exactly when the user's messages since its
\* creation or last clear, the current one included, number more than 10,
\* and from the generic pool otherwise.
C22_EncouragementAfterTen ==
    \A t \in Tasks :
        AppFellBack(t) /\ Uncategorised(tasks[t].text) =>
            IF MessagesSinceClear(tasks[t].id) > 10
            THEN tasks[t].reply \in SeqToSet(advanced_responses)
            ELSE /\ tasks[t].reply \in SeqToSet(general_responses)
                 /\ tasks[t].reply \notin SeqToSet(advanced_responses)

\* The 11th message after a clear has its reply from the encouragement
\* pool.
C22_Witness ==
    \E t \in Tasks :
        /\ AppFellBack(t) /\ Uncategorised(tasks[t].text)
        /\ MessagesSinceClear(tasks[t].id) = 11
        /\ app_count(tasks[t].id) = 11
        /\ now > 34
        /\ tasks[t].reply \in SeqToSet(advanced_responses)

(***************************************************************************)
(* Properties of the validator.                                            *)
(***************************************************************************)

\* is_valid_phi3_response has been called on a response of call.words
\* words, call.distinct of them distinct once lower-cased, that no other
\* gate rejects.
GateCalled == call.fn = "is_valid_phi3_response"

\* C23: the repetition gate of is_valid_phi3_response rejects a text
\* exactly when it has more than 5 words and fewer distinct lower-cased
\* words than 0.6 times its word count: a text of 5 words or fewer is not
\* rejected for repetition, and a ratio of exactly 0.6 is accepted.
C23_RepetitionGate ==
    GateCalled =>
        /\ call.out = ~(call.words > 5 /\ 10 * call.distinct < 6 * call.words)
        /\ call.words <= 5 => call.out
        /\ 10 * call.distinct = 6 * call.words => call.out

\* A text of 10 words, 6 of them distinct once lower-cased, is accepted.
C23_Witness ==
    /\ GateCalled
    /\ call.words = 10 /\ call.distinct = 6
    /\ Contains(call.response, "ONE")
    /\ call.out

(***************************************************************************)
(* Properties of the stored level and mode.                                *)
(***************************************************************************)

Levels == {"beginner", "intermediate", "advanced"}

\* Every stored level and every stored mode is of its enumeration.
StoredEnumerated ==
    /\ \A u \in DOMAIN user_contexts : user_contexts[u].level \in Levels
    /\ \A c \in DOMAIN user_modes : user_modes[c] \in Modes

\* The argument of /level names a level (lines 324-325).
NamesLevel(args) == Len(args) > 0 /\ lower(args[1]) \in Levels

\* A context stored in this step starts at level beginner unless /level
\* with a level stores it, and a mode stored for a chat that had none is
\* mixed unless a mode button stores it.
StoredDefaults ==
    /\ \A u \in DOMAIN user_contexts' \ DOMAIN user_contexts :
           \/ user_contexts'[u].level = "beginner"
           \/ \E args \in Session.level_args :
                 NamesLevel(args) /\ level_command(u, args, Session.max_now)
    /\ \A c \in DOMAIN user_modes' \ DOMAIN user_modes :
           \/ user_modes'[c] = "mixed"
           \/ \E data \in Session.callbacks : button_handler(c, data)

\* /level with an argument that names no level leaves the level as it was.
BadLevelKept ==
    \A u \in Session.users, args \in Session.level_args :
        level_command(u, args, Session.max_now) /\ Len(args) > 0 /\ ~NamesLevel(args) =>
            /\ app_level(u)' = app_level(u)
            /\ \A v \in DOMAIN user_contexts : user_contexts'[v].level = user_contexts[v].level

\* C24: in every reachable state each stored level is one of beginner,
\* intermediate, advanced (beginner by default) and each stored mode one of
\* mixed, conversation, grammar (mixed by default), and a /level command
\* with an argument outside the enumeration leaves the stored level
\* unchanged.
C24_LevelAndModeEnumerated ==
    /\ []StoredEnumerated
    /\ [][StoredDefaults /\ BadLevelKept]_vars

\* /level expert has been answered with the usage text for a user whose
\* level was advanced, and it still is.
C24_Witness ==
    /\ last.op = "level_command"
    /\ last.sent = << Sent("text", "usage") >>
    /\ last.id \in DOMAIN user_contexts
    /\ user_contexts[last.id].level = "advanced"

(***************************************************************************)
(* Properties of main.py's exchanges.                                      *)
(***************************************************************************)

\* The replies generate_phi3_reply can choose for a user turn when the
\* backend fails, as that of Await does: the strings of the fallback pool
\* of the utterance.
RepliesFor(mode_, user_input) ==
    SeqToSet(main_get_contextual_fallback(mode_, user_input))

\* h is made of complete exchanges, each assistant turn a reply to the
\* user turn before it.
CompleteExchanges(mode_, h) ==
    /\ Len(h) % 2 = 0
    /\ \A i \in 1..Len(h) :
           IF i % 2 = 1
           THEN h[i].role = "user"
           ELSE /\ h[i].role = "assistant"
                /\ h[i].content \in RepliesFor(mode_, h[i - 1].content)

\* C25: in main.py, between the steps of the handlers, each chat's
\* history consists of complete exchanges: it has even length, starts
\* with a user turn, alternates user and assistant, and each assistant
\* turn is the reply chosen for the user turn before it; also while
\* several generate_phi3_reply calls of the chat are suspended at the
\* backend await, and across truncation.
C25_CompleteExchanges ==
    program = "main" =>
        \A c \in Ids : CompleteExchanges(main_mode(c), main_user_conversations[c])

\* Two calls for one chat with different utterances were suspended
\* together, the later one has recorded its exchange and the earlier one
\* is still suspended; the history has been truncated.
C25_Witness ==
    /\ appends > 6
    /\ Len(main_user_conversations["u1"]) = 6
    /\ tasks[1].pc = "gen_await" /\ tasks[1].id = "u1"
    /\ tasks[2].pc = "chat_reply" /\ tasks[2].id = "u1"
    /\ tasks[1].text # tasks[2].text
    /\ tasks[2].recorded

(***************************************************************************)
(* Properties of the isolation of conversations.                           *)
(***************************************************************************)

\* What is stored for an identifier: its history, mode, level, interests
\* and turn count, and whether each is stored at all.
Stored(id) ==
    << id \in DOMAIN app_user_conversations, app_history(id),
       id \in DOMAIN user_contexts, app_level(id), app_interests(id), app_count(id),
       id \in DOMAIN user_modes, main_mode(id), main_user_conversations[id] >>

\* This step is a step of a message, clear, level or mode operation of id.
OperationOf(id) ==
    \/ \E t \in Tasks : tasks[t].pc # "idle" /\ tasks[t].id = id /\ tasks'[t] # tasks[t]
    \/ /\ \E t \in Tasks : tasks[t].pc = "idle" /\ tasks'[t].id = id
       /\ \E m \in Apart.app_texts : handle_message_in(id, m, Apart.max_now)
    \/ \E m \in Apart.main_texts : chat_in(id, m, Apart.max_log)
    \/ clear_command_in(id, Apart.max_now)
    \/ \E args \in Apart.level_args : level_command_in(id, args, Apart.max_now)
    \/ \E data \in Apart.callbacks : button_handler_in(id, data)
    \/ clear_history_in(id)

\* C26: conversations are isolated: a message, clear, level or mode
\* operation of one identifier leaves the history, mode, level, interests
\* and turn count of every other identifier unchanged, also when the
\* operations of different identifiers interleave.
C26_Isolated ==
    [][\A id \in Ids : OperationOf(id) =>
           \A other \in Ids \ {id} : Stored(other)' = Stored(other)]_vars

\* Handlers of the two identifiers are in progress together, the one of
\* u2 having started later and come further, and each identifier has its
\* own history.
C26_Witness ==
    /\ tasks[1].id = "u1" /\ tasks[2].id = "u2"
    /\ tasks[1].pc \in {"hm_generate", "gen_await"}
    /\ tasks[2].pc \in {"hm_send", "chat_reply"}
    /\ Len(History("u1")) # Len(History("u2"))
    /\ Len(History("u2")) > 0

(***************************************************************************)
(* Properties of a change of mode.                                         *)
(***************************************************************************)

\* A mode button or /start leaves the chat's history empty, and /start
\* the chat's mode mixed.
ModeChangeEmpties ==
    \A c \in Ids :
        /\ \A data \in Session.callbacks :
               button_handler(c, data) /\ ButtonMode(data) # "" =>
                   /\ main_user_conversations'[c] = << >>
                   /\ user_modes'[c] = ButtonMode(data)
        /\ start(c) =>
               /\ main_user_conversations'[c] = << >>
               /\ user_modes'[c] = "mixed"

\* The prompt of a call that waits for the backend is built from turns
\* recorded since the chat's history was last emptied, and from none when
\* a mode button or /start of the chat was the last handler to finish.
PromptSinceChange ==
    \A t \in Tasks :
        tasks[t].pc = "gen_await" =>
            /\ tasks[t].prompt =
                   build_phi3_prompt(tasks[t].text, tasks[t].mode, appended[tasks[t].id])
            /\ (last.id = tasks[t].id /\ last.op \in {"button_handler", "start"}
                    /\ last.sent # << >>) =>
                   tasks[t].prompt =
                       build_phi3_prompt(tasks[t].text, main_mode(tasks[t].id), << >>)

\* C27: in main.py every mode selection through button_handler and every
\* /start leaves the chat's history empty, /start also sets the mode to
\* mixed, and the next prompt built after a mode change contains no turn
\* from before the change.
C27_ModeChangeStartsAfresh ==
    /\ [][ModeChangeEmpties]_vars
    /\ []PromptSinceChange

\* The grammar button was pressed in a chat with a recorded exchange, and
\* the prompt of the chat's next message is built: it holds no earlier
\* turn.
C27_Witness ==
    \E t \in Tasks :
        /\ tasks[t].pc = "gen_await"
        /\ last.op = "button_handler" /\ last.id = tasks[t].id
        /\ last.had = 2
        /\ tasks[t].mode = "grammar"
        /\ ~Contains(tasks[t].prompt, GoodText)
        /\ Contains(tasks[t].prompt, prompt_grammar)

====
